---------------------------- MODULE Spec2Model ----------------------------
(***************************************************************************)
(* Model of the Hostaway message database: the store adapter (MongoDB      *)
(* class of src/database/mongodb.py) and the ETL pipeline                   *)
(* (ETLPipeline of src/pipeline/etl.py and of                               *)
(* src/message_database/pipeline/etl.py).                                   *)
(*                                                                         *)
(* A document is a function from field names to values.  The server-side   *)
(* "_id" field, which update_one never takes from the caller's dictionary, *)
(* is left out of the documents.                                            *)
(***************************************************************************)
EXTENDS Integers, Sequences, FiniteSets, TLC

VARIABLES
    dryRun,       \* config.ENABLE_DRY_RUN, fixed for the life of the process
    store,        \* the documents of the collection, in insertion order
    uniqueIndex,  \* the collection carries the index message_id_unique
    db,           \* per adapter object: client, collection, connected
    pend,         \* per adapter: the insert half of an upsert that found no match
    last,         \* the last call on an adapter (history)
    twice         \* the last two calls were the same successful write (history)

storeVars == <<dryRun, store, uniqueIndex, db, pend, last, twice>>

VARIABLES
    variant,          \* "src": src/pipeline/etl.py; "pkg": src/message_database/pipeline/etl.py
    config,           \* for each required configuration value, whether it is set
    since,            \* extract_transform_load's since_timestamp, "None" when not given
    cutoffs,          \* the argument of each call of get_all_messages, in order
    upstream,         \* the conversations the listing endpoint holds, in order
    pc,               \* where the run is
    gen,              \* the generator of get_all_messages: offset, records left of the page, more pages
    cur,              \* src: the conversation whose messages are being processed
    msgq,             \* src: the messages of cur not yet processed
    processed_count,
    error_count,
    result,           \* what extract_transform_load returned
    notifications,    \* calls of send_error_notification
    disconnects,      \* calls of db.disconnect()
    storeOps,         \* calls of db.connect, db.get_latest_message_timestamp, db.insert_message
    gateway,          \* the gateway methods called so far
    connectRet,       \* what db.connect() returned to the run
    insertCalls,      \* calls of db.insert_message
    log,              \* what became of each record (history)
    authFailed        \* a credentials grant failed during the run (history)

etlVars == <<variant, config, since, cutoffs, upstream, pc, gen, cur, msgq, processed_count,
             error_count, result, notifications, disconnects, storeOps, gateway,
             connectRet, insertCalls, log, authFailed>>

VARIABLES
    responder,        \* what answers get_messages: a stub's list of pages, or a server's records
    page_offset,      \* get_all_messages: offset
    messages,         \* get_all_messages: the page being yielded
    page_pos,         \* how many records of messages were yielded
    total_retrieved,  \* get_all_messages: total_retrieved
    gpc,              \* where the generator is
    calls,            \* the offset of each get_messages call, in order (history)
    yielded           \* the records yielded, in order (history)

pageVars == <<responder, page_offset, messages, page_pos, total_retrieved, gpc, calls, yielded>>

VARIABLES
    access_token,     \* HostawayClient holds a token that has not expired
    attempt,          \* _make_request: the loop index
    rpc,              \* where _make_request is
    script,           \* the answers the HTTP calls of this request get, in order
    http_calls,       \* calls of requests.request
    grants,           \* calls of the credentials grant (requests.post to /accessTokens)
    refreshes,        \* the grants made because of a 401 or 403
    sleeps,           \* the arguments of time.sleep, in order
    responses,        \* the answer each HTTP call got, in order (history)
    req_result        \* what _make_request returned or raised

reqVars == <<access_token, attempt, rpc, script, http_calls, grants, refreshes, sleeps,
             responses, req_result>>

VARIABLES
    now,              \* datetime.now(), in seconds
    token,            \* HostawayClient.access_token
    token_expires_at, \* HostawayClient.token_expires_at
    issued,           \* when the cached token was granted, and the lifetime it came with (history)
    token_grants,     \* calls of the credentials grant (history)
    sent              \* the last call of _make_request or _get_access_token (history)

tokVars == <<now, token, token_expires_at, issued, token_grants, sent>>

VARIABLES
    module,           \* the pipeline module that handles the record: "src" or "pkg"
    rec,              \* a raw record of the listing
    thread,           \* what get_conversation_messages answers for the record
    lookups,          \* what the property and the reservation lookup answer when called
    out               \* what became of the record

trVars == <<module, rec, thread, lookups, out>>

VARIABLES
    args,             \* main: the parsed arguments of the etl command
    today,            \* main: datetime.now(), in days
    invoked,          \* main: the since_timestamp handed to extract_transform_load
    run_returned,     \* main: what extract_transform_load returned
    exit_code         \* main: the exit status of the process

cliVars == <<args, today, invoked, run_returned, exit_code>>

VARIABLES
    served,           \* read API: the number of requests answered
    response          \* read API: the answer to the last request

apiVars == <<served, response>>

VARIABLES
    job               \* run_daily_job: where it is, the notifications it sent itself
                      \* and whether it raised

jobVars == <<job>>

VARIABLES
    server,           \* successive runs: what the upstream does with arrivalStartDate
    feed,             \* successive runs: the records the upstream holds, unchanging
    reruns            \* successive runs: how many ended, and the cutoff, the records
                      \* fetched and the outcome of the last one

runsVars == <<server, feed, reruns>>

moreVars == <<apiVars, jobVars, runsVars>>

lateVars == <<cliVars, moreVars>>

auxVars == <<tokVars, trVars, lateVars>>

gwVars == <<pageVars, reqVars, auxVars>>

vars == <<storeVars, etlVars, gwVars>>

-----------------------------------------------------------------------------
(* Values *)

\* The adapter objects: one MongoDB() singleton per process (run).
Adapters == {"run1", "run2"}

\* The configuration values validate_config requires.
required_vars == {"HOSTAWAY_CLIENT_ID", "HOSTAWAY_CLIENT_SECRET", "MONGODB_URI"}

\* A validation that does not look at the store URI
validate_config_lax(c) == c["HOSTAWAY_CLIENT_ID"] /\ c["HOSTAWAY_CLIENT_SECRET"]

\* validate_config(): passes (TRUE) when no required value is missing,
\* raises ValueError (FALSE) otherwise.
validate_config(c) == {v \in required_vars : ~c[v]} = {}

MsgIds == {"m1", "m2"}
Contents == {"a", "b"}
Stamps == {1, 2}

\* The dictionaries handed to insert_message: message_id is always carried,
\* every other field may or may not be.
Dicts ==
    {[message_id |-> i] : i \in MsgIds}
    \cup {[message_id |-> i, content |-> c] : i \in MsgIds, c \in Contents}
    \cup {[message_id |-> i, timestamp |-> t] : i \in MsgIds, t \in Stamps}
    \cup {[message_id |-> i, content |-> c, timestamp |-> t] :
            i \in MsgIds, c \in Contents, t \in Stamps}

\* The dictionaries of canonical messages (Message.to_dict): every field.
CanonicalFields == {"message_id", "content", "timestamp"}
Canonical == {d \in Dicts : DOMAIN d = CanonicalFields}

NoDict == [message_id |-> "none"]
NoCall == [op |-> "none", arg |-> NoDict, ret |-> "none", conn |-> FALSE,
           touched |-> FALSE, err |-> FALSE, matched |-> FALSE, changed |-> FALSE]

\* MongoDB.__init__
NewAdapter == [client |-> FALSE, collection |-> FALSE, connected |-> FALSE]

-----------------------------------------------------------------------------
(* The collection *)

Matching(s, id) == {i \in 1..Len(s) : s[i].message_id = id}

CountOf(s, id) == Cardinality(Matching(s, id))

FirstMatch(s, id) == CHOOSE i \in Matching(s, id) : \A j \in Matching(s, id) : i <= j

\* A write that replaces the whole document by m.
ReplaceFields(old, m) == m

\* {"$set": m}: the fields of m are written, the others are kept.
SetFields(old, m) ==
    [f \in (DOMAIN old) \cup (DOMAIN m) |-> IF f \in DOMAIN m THEN m[f] ELSE old[f]]

\* An insert where the upsert should be: a second document for the key.
InsertOne(s, m) == Append(s, m)

\* collection.update_one({"message_id": id}, {"$set": m}, upsert=True)
UpdateOne(s, m) ==
    IF Matching(s, m.message_id) # {}
    THEN [s EXCEPT ![FirstMatch(s, m.message_id)] = SetFields(@, m)]
    ELSE Append(s, m)

\* The sort key of a document under sort=[("timestamp", -1)]: a document
\* without the field sorts as null, below every timestamp.
SortKey(doc) == IF "timestamp" \in DOMAIN doc THEN doc.timestamp ELSE 0

\* A find_one that sorts ascending: the oldest document.
find_one_oldest(s) ==
    s[CHOOSE i \in 1..Len(s) : \A j \in 1..Len(s) : SortKey(s[i]) <= SortKey(s[j])]

\* collection.find_one(sort=[("timestamp", -1)]) on a collection that is
\* not empty: a document of the greatest sort key.
find_one_latest(s) ==
    s[CHOOSE i \in 1..Len(s) : \A j \in 1..Len(s) : SortKey(s[j]) <= SortKey(s[i])]

\* datetime.isoformat(): the string of a timestamp.
isoformat(t) == IF t = 1 THEN "0001-01-01T00:00:00" ELSE "0002-01-01T00:00:00"

-----------------------------------------------------------------------------
(* The adapter *)

\* History of a call: its name, argument and result, whether the adapter was
\* connected when it was made, whether it reached the collection, whether the
\* collection operation raised PyMongoError, whether it wrote to a document
\* that was there (no upserted_id), whether it changed the store.
Record(a, op, arg, ret, touched, err, after) ==
    /\ last' = [op |-> op, arg |-> arg, ret |-> ret, conn |-> db[a].connected,
                touched |-> touched, err |-> err,
                matched |-> (touched /\ ~err /\ Matching(store, arg.message_id) # {}),
                changed |-> (after # store)]
    /\ twice' = /\ op = "insert_message" /\ last.op = op /\ last.arg = arg
                /\ ret = "True" /\ last.ret = "True"
                /\ touched /\ last.touched


\* connect(max_retries=3, ...)
max_retries == 3

\* What one attempt of connect's loop can end with: the probe answers, the
\* probe raises ConnectionFailure, the probe raises another error, or the
\* MongoClient constructor raises before self.client is assigned.
ProbeResults == {"ok", "ConnectionFailure", "error", "ctor_error"}

\* The attempts of one call of connect, in order: the loop goes on only after
\* a ConnectionFailure, and makes at most max_retries attempts.
ProbeRuns ==
    {p \in UNION {[1..n -> ProbeResults] : n \in 1..max_retries} :
        /\ \A i \in 1..(Len(p) - 1) : p[i] = "ConnectionFailure"
        /\ Len(p) < max_retries => p[Len(p)] # "ConnectionFailure"}

ConnectResult(p) ==
    IF p[Len(p)] = "ConnectionFailure" THEN "False"
    ELSE IF p[Len(p)] = "ok" THEN "True" ELSE "raise"

\* self.client after the loop: assigned by every attempt whose constructor
\* returned.
ClientAfter(old, p) == old \/ \E i \in 1..Len(p) : p[i] # "ctor_error"

\* _create_indexes: create_indexes builds message_id_unique unless it raises
\* PyMongoError, which is logged; the server refuses the unique index over a
\* collection that holds two documents with one message_id.
create_indexes(ok) ==
    uniqueIndex' =
        (uniqueIndex
            \/ (ok /\ \A i, j \in 1..Len(store) :
                        store[i].message_id = store[j].message_id => i = j))

connect(a) ==
    /\ IF dryRun
       THEN /\ db' = [db EXCEPT ![a].connected = TRUE]
            /\ UNCHANGED uniqueIndex
            /\ Record(a, "connect", NoDict, "True", FALSE, FALSE, store)
       ELSE \E p \in ProbeRuns :
            /\ db' = [db EXCEPT ![a] =
                        IF ConnectResult(p) = "True"
                        THEN [client |-> TRUE, collection |-> TRUE, connected |-> TRUE]
                        ELSE [@ EXCEPT !.client = ClientAfter(@, p)]]
            /\ IF ConnectResult(p) = "True"
               THEN \E ixok \in BOOLEAN : create_indexes(ixok)
               ELSE UNCHANGED uniqueIndex
            /\ Record(a, "connect", NoDict, ConnectResult(p), FALSE, FALSE, store)
    /\ UNCHANGED <<dryRun, store, pend>>

\* disconnect() that releases nothing
disconnect_noop(h) == h

\* The fields of the adapter after disconnect().
disconnected(h) ==
    IF dryRun THEN [h EXCEPT !.connected = FALSE]
    ELSE IF h.client
         THEN [client |-> FALSE, collection |-> FALSE, connected |-> FALSE]
         ELSE h

disconnect(a) ==
    /\ db' = [db EXCEPT ![a] = disconnected(@)]
    /\ Record(a, "disconnect", NoDict, "None", FALSE, FALSE, store)
    /\ UNCHANGED <<dryRun, store, uniqueIndex, pend>>

\* insert_message without the guard on self.connected
insert_guard_missing(h) == FALSE

\* The early return of insert_message: "if not self.connected".
insert_refused(h) == ~h.connected

\* insert_message(message_data), the upsert taken as one step: err is whether
\* update_one raises PyMongoError.
insert_message(a, m, err) ==
    /\ IF insert_refused(db[a])
       THEN /\ UNCHANGED store
            /\ Record(a, "insert_message", m, "False", FALSE, FALSE, store)
       ELSE IF dryRun
       THEN /\ UNCHANGED store
            /\ Record(a, "insert_message", m, "True", FALSE, FALSE, store)
       ELSE IF ~db[a].collection
       THEN /\ UNCHANGED store
            /\ Record(a, "insert_message", m, "raise", FALSE, FALSE, store)
       ELSE IF err
       THEN /\ UNCHANGED store
            /\ Record(a, "insert_message", m, "False", TRUE, TRUE, store)
       ELSE /\ store' = UpdateOne(store, m)
            /\ Record(a, "insert_message", m, "True", TRUE, FALSE, UpdateOne(store, m))
    /\ UNCHANGED <<dryRun, uniqueIndex, db, pend>>

InsertMessage(a) == \E m \in Dicts, err \in BOOLEAN : insert_message(a, m, err)

\* What get_latest_message_timestamp() returns: None when not connected, in
\* dry-run mode, when find_one raises PyMongoError (err), when it finds no
\* document and when the document it finds has no timestamp.
latest_message_timestamp(h, s, err) ==
    IF ~h.connected THEN "None"
    ELSE IF dryRun THEN "None"
    ELSE IF ~h.collection THEN "raise"
    ELSE IF err THEN "None"
    ELSE IF s = <<>> THEN "None"
    ELSE IF "timestamp" \in DOMAIN find_one_latest(s)
    THEN isoformat(find_one_latest(s).timestamp)
    ELSE "None"

\* get_latest_message_timestamp(): a read, the store is left as it is.
get_latest_message_timestamp(a, err) ==
    /\ Record(a, "get_latest_message_timestamp", NoDict,
              latest_message_timestamp(db[a], store, err),
              db[a].connected /\ ~dryRun /\ db[a].collection,
              db[a].connected /\ ~dryRun /\ db[a].collection /\ err, store)
    /\ UNCHANGED <<dryRun, store, uniqueIndex, db, pend>>

\* What count_messages() returns: 0 when not connected, in dry-run mode and
\* when count_documents raises PyMongoError (err).
counted_messages(h, s, err) ==
    IF ~h.connected THEN "0"
    ELSE IF dryRun THEN "0"
    ELSE IF ~h.collection THEN "raise"
    ELSE IF err THEN "0"
    ELSE ToString(Len(s))

\* count_messages(): a read, the store is left as it is.
count_messages(a, err) ==
    /\ Record(a, "count_messages", NoDict,
              counted_messages(db[a], store, err),
              db[a].connected /\ ~dryRun /\ db[a].collection,
              db[a].connected /\ ~dryRun /\ db[a].collection /\ err, store)
    /\ UNCHANGED <<dryRun, store, uniqueIndex, db, pend>>

-----------------------------------------------------------------------------
(* Spec: the adapter of one process, connected and disconnected run after   *)
(* run, every call taken as one step.                                       *)

\* The adapter as constructed, on a new collection.
InitAdapters ==
    /\ dryRun \in BOOLEAN
    /\ uniqueIndex = FALSE
    /\ db = [a \in Adapters |-> NewAdapter]
    /\ pend = [a \in Adapters |-> NoDict]
    /\ last = NoCall
    /\ twice = FALSE

InitStore == InitAdapters /\ store = <<>>

\* ETLPipeline.__init__, no run started.
NoRun ==
    /\ variant = "src"
    /\ config = [v \in required_vars |-> TRUE]
    /\ since = "None"
    /\ cutoffs = <<>>
    /\ upstream = <<>>
    /\ pc = "idle"
    /\ gen = [offset |-> 0, buf |-> <<>>, more |-> TRUE]
    /\ cur = 0
    /\ msgq = <<>>
    /\ processed_count = 0
    /\ error_count = 0
    /\ result = "none"
    /\ notifications = 0
    /\ disconnects = 0
    /\ storeOps = 0
    /\ gateway = {}
    /\ connectRet = "none"
    /\ insertCalls = 0
    /\ log = <<>>
    /\ authFailed = FALSE

\* HostawayClient.__init__: no token, no request made, no generator built.
NoRequest ==
    /\ access_token = FALSE
    /\ attempt = 0
    /\ rpc = "idle"
    /\ script = <<>>
    /\ http_calls = 0
    /\ grants = 0
    /\ refreshes = 0
    /\ sleeps = <<>>
    /\ responses = <<>>
    /\ req_result = "none"

NoPages ==
    /\ responder = [kind |-> "none"]
    /\ page_offset = 0
    /\ messages = <<>>
    /\ page_pos = 0
    /\ total_retrieved = 0
    /\ gpc = "idle"
    /\ calls = <<>>
    /\ yielded = <<>>

\* HostawayClient.__init__: access_token and token_expires_at are None.
NoToken == 0
NoExpiry == -1
NoSend == [call |-> "none", cached |-> NoToken, valid |-> FALSE, granted |-> FALSE,
           attached |-> NoToken, raised |-> FALSE]

NoTokens ==
    /\ now = 0
    /\ token = NoToken
    /\ token_expires_at = NoExpiry
    /\ issued = [at |-> 0, expires_in |-> 0]
    /\ token_grants = 0
    /\ sent = NoSend

\* No record handled.
NoReservation == [present |-> FALSE, id |-> "", price |-> "None"]
NoMessage == [direction |-> "", message_type |-> "", content |-> "", property_name |-> "",
              guest |-> [name |-> "", email |-> "None"],
              reservation |-> NoReservation]
NoOutcome == [status |-> "none", called |-> {}, message |-> NoMessage]

NoRecord ==
    /\ module = "src"
    /\ rec = [isIncoming |-> "absent", type |-> <<>>, body |-> "absent",
              listingName |-> "absent", reservationId |-> "absent", guest |-> "absent"]
    /\ thread = "none"
    /\ lookups = [property |-> "ok", reservation |-> "ok"]
    /\ out = NoOutcome

\* main not started.
NotExited == -1
NoCommand ==
    /\ args = [since_timestamp |-> "None", days_given |-> FALSE, days_ago |-> 0]
    /\ today = 0
    /\ invoked = "pending"
    /\ run_returned = "none"
    /\ exit_code = NotExited

\* The read API has answered no request.
NoResponse == [op |-> "none", id |-> "", status |-> 0, conn |-> FALSE, touched |-> FALSE,
               err |-> FALSE, found |-> FALSE, returned |-> 0]
NoRequests ==
    /\ served = 0
    /\ response = NoResponse

\* run_daily_job not called.
NoJob == job = [pc |-> "idle", sent |-> 0, raised |-> FALSE]

\* No run of a sequence of runs has been made.
NoRuns == [n |-> 0, cutoff |-> "None", fetched |-> {}, errors |-> 0, aborted |-> FALSE]
NoReruns ==
    /\ server = "filters"
    /\ feed = <<>>
    /\ reruns = NoRuns

NoMore == NoRequests /\ NoJob /\ NoReruns

NoLate == NoCommand /\ NoMore

NoAux == NoTokens /\ NoRecord /\ NoLate

NoGateway == NoRequest /\ NoPages /\ NoAux

Init == InitStore /\ NoRun /\ NoGateway

Connect == connect("run1") /\ UNCHANGED <<etlVars, gwVars>>

Disconnect == disconnect("run1") /\ UNCHANGED <<etlVars, gwVars>>

Insert == InsertMessage("run1") /\ UNCHANGED <<etlVars, gwVars>>

Latest == (\E err \in BOOLEAN : get_latest_message_timestamp("run1", err)) /\ UNCHANGED <<etlVars, gwVars>>

Count == (\E err \in BOOLEAN : count_messages("run1", err)) /\ UNCHANGED <<etlVars, gwVars>>

Next ==
    \/ Connect
    \/ Disconnect
    \/ Insert
    \/ Latest
    \/ Count

Spec == Init /\ [][Next]_vars

-----------------------------------------------------------------------------
(* SpecRace: the adapters of two processes that run at the same time       *)
(* against one collection.  The server takes an upsert that matches a      *)
(* document as one step on that document; an upsert that matches none      *)
(* inserts in a second step, and another process's write can fall between  *)
(* the two.  With the index message_id_unique the late insert fails with   *)
(* DuplicateKeyError (a PyMongoError) or is retried by the server as an    *)
(* update; without it the insert adds a second document.                   *)

\* The canonical messages the two runs write.
RaceDicts == {d \in Canonical : d.timestamp = 1}

\* insert_message up to the server's search for a matching document.
insert_begin(a, m, err) ==
    /\ pend[a] = NoDict
    /\ IF insert_refused(db[a])
       THEN /\ UNCHANGED <<store, pend>>
            /\ Record(a, "insert_message", m, "False", FALSE, FALSE, store)
       ELSE IF dryRun
       THEN /\ UNCHANGED <<store, pend>>
            /\ Record(a, "insert_message", m, "True", FALSE, FALSE, store)
       ELSE IF err
       THEN /\ UNCHANGED <<store, pend>>
            /\ Record(a, "insert_message", m, "False", TRUE, TRUE, store)
       ELSE IF Matching(store, m.message_id) # {}
       THEN /\ store' = UpdateOne(store, m)
            /\ UNCHANGED pend
            /\ Record(a, "insert_message", m, "True", TRUE, FALSE, UpdateOne(store, m))
       ELSE /\ pend' = [pend EXCEPT ![a] = m]
            /\ UNCHANGED <<store, last, twice>>
    /\ UNCHANGED <<dryRun, uniqueIndex, db>>

\* The insert of an upsert that matched no document; retried is whether the
\* server retries a duplicate key as an update.
insert_end(a, retried) ==
    /\ pend[a] # NoDict
    /\ pend' = [pend EXCEPT ![a] = NoDict]
    /\ IF Matching(store, pend[a].message_id) = {} \/ ~uniqueIndex
       THEN /\ store' = Append(store, pend[a])
            /\ Record(a, "insert_message", pend[a], "True", TRUE, FALSE,
                      Append(store, pend[a]))
       ELSE IF retried
       THEN /\ store' = UpdateOne(store, pend[a])
            /\ Record(a, "insert_message", pend[a], "True", TRUE, FALSE,
                      UpdateOne(store, pend[a]))
       ELSE /\ UNCHANGED store
            /\ Record(a, "insert_message", pend[a], "False", TRUE, TRUE, store)
    /\ UNCHANGED <<dryRun, uniqueIndex, db>>

InsertBegin(a) ==
    /\ \E m \in RaceDicts, err \in BOOLEAN : insert_begin(a, m, err)
    /\ UNCHANGED <<etlVars, gwVars>>

InsertEnd(a) ==
    /\ \E retried \in BOOLEAN : insert_end(a, retried)
    /\ UNCHANGED <<etlVars, gwVars>>

RaceConnect(a) == pend[a] = NoDict /\ connect(a) /\ UNCHANGED <<etlVars, gwVars>>

RaceDisconnect(a) == pend[a] = NoDict /\ disconnect(a) /\ UNCHANGED <<etlVars, gwVars>>

NextRace ==
    \E a \in Adapters :
        \/ RaceConnect(a)
        \/ RaceDisconnect(a)
        \/ InsertBegin(a)
        \/ InsertEnd(a)

SpecRace == Init /\ [][NextRace]_vars

-----------------------------------------------------------------------------
(* The pipeline: one call of ETLPipeline.extract_transform_load, in either  *)
(* of the repository's two pipeline modules.                                *)

\* The page size of get_all_messages (limit = 100 in the source), scaled down.
PageLimit == 2

\* The most conversations the upstream holds.
MaxConvs == 3

\* A raw conversation: whether it carries an id, whether its own fields make
\* the transformer raise, and its messages (for each, whether its fields make
\* the transformer raise).
Conv(id, bad, msgs) == [id |-> id, bad |-> bad, msgs |-> msgs]

ConvKinds ==
    { Conv(TRUE, FALSE, <<FALSE>>),
      Conv(TRUE, TRUE, <<FALSE>>),
      Conv(TRUE, FALSE, <<TRUE, FALSE>>),
      Conv(TRUE, FALSE, <<>>),
      Conv(FALSE, FALSE, <<FALSE>>) }

Upstreams == UNION {[1..n -> ConvKinds] : n \in 0..MaxConvs}

runConst == <<variant, config, since, cutoffs, upstream>>

\* A document an earlier run left in the store.
EarlierDoc == [message_id |-> <<0, 1>>, content |-> "b", timestamp |-> 2]

\* The store a run may find.
EarlierStores == {<<>>, <<EarlierDoc>>}

\* The positions in upstream of the page at offset (offset/limit slicing).
Page(offset) ==
    LET n == IF Len(upstream) - offset > PageLimit THEN PageLimit
             ELSE IF Len(upstream) - offset > 0 THEN Len(upstream) - offset
             ELSE 0
    IN  [i \in 1..n |-> offset + i]

\* get_all_messages after a page request answered with page: an empty page
\* ends the generator, a short page is the last one.
next_page(g, page) ==
    IF page = <<>> THEN [g EXCEPT !.more = FALSE]
    ELSE [offset |-> g.offset + PageLimit, buf |-> page, more |-> Len(page) >= PageLimit]

\* The dictionary of the canonical message of message mi of conversation ci
\* (mi = 0: of the conversation itself).
MessageDoc(ci, mi) == [message_id |-> <<ci, mi>>, content |-> "a", timestamp |-> 1]

Entry(ci, mi, outcome) == [conv |-> ci, msg |-> mi, outcome |-> outcome]

\* _process_message of src/pipeline/etl.py: False when the transformer (or
\* anything else) raised and when insert_message returned False.
process_message_src(raised, ret) == IF raised THEN FALSE ELSE ret = "True"

\* _process_message of src/message_database/pipeline/etl.py: the value of
\* insert_message is not looked at.
process_message_pkg(raised, ret) == IF raised \/ ret = "raise" THEN FALSE ELSE TRUE

\* The loop body's counting of one _process_message result.
Tally(success) ==
    IF success
    THEN processed_count' = processed_count + 1 /\ UNCHANGED error_count
    ELSE error_count' = error_count + 1 /\ UNCHANGED processed_count

\* An except clause that swallows the error and reports the counts
ExceptSwallowed ==
    /\ notifications' = notifications
    /\ result' = IF error_count = 0 THEN "True" ELSE "False"
    /\ pc' = "finally"

\* The except clause that ends the run without passing through finally
ExceptNoFinally ==
    /\ notifications' = notifications + 1
    /\ result' = "False"
    /\ pc' = "done"

\* "except Exception" of extract_transform_load: one notification, return
\* False; the finally clause follows.
Except ==
    /\ notifications' = notifications + 1
    /\ result' = "False"
    /\ pc' = "finally"

\* The branch of a failed connect that notifies and goes on with the run
connect_failed_goes_on ==
    /\ notifications' = notifications + 1
    /\ result' = result
    /\ pc' = "cutoff"

\* "if not db.connect()": one notification, return False; finally follows.
connect_failed ==
    /\ notifications' = notifications + 1
    /\ result' = "False"
    /\ pc' = "finally"

\* validate_config(): raises ValueError when a required value is missing.
Validate ==
    /\ pc = "start"
    /\ processed_count' = 0
    /\ error_count' = 0
    /\ IF validate_config(config)
       THEN pc' = "connect" /\ UNCHANGED <<notifications, result>>
       ELSE Except
    /\ UNCHANGED <<gwVars, storeVars, runConst, gen, cur, msgq, disconnects, storeOps,
                   gateway, connectRet, insertCalls, log, authFailed>>

\* db.connect() and the branch on its value; an error connect does not catch
\* reaches the except clause.
EtlConnect ==
    /\ pc = "connect"
    /\ connect("run1")
    /\ connectRet' = last'.ret
    /\ storeOps' = storeOps + 1
    /\ IF last'.ret = "True"
       THEN pc' = "cutoff" /\ UNCHANGED <<notifications, result>>
       ELSE IF last'.ret = "False" THEN connect_failed ELSE Except
    /\ UNCHANGED <<gwVars, runConst, gen, cur, msgq, processed_count, error_count,
                   disconnects, gateway, insertCalls, log, authFailed>>

\* A cutoff that is always the store's latest timestamp
latest_cutoff(given, latest) == latest

\* "if not since_timestamp: since_timestamp = db.get_latest_message_timestamp()"
effective_cutoff(given, latest) == IF given # "None" THEN given ELSE latest

\* The cutoff (the store's latest timestamp unless one was given) and the
\* call of get_all_messages, which only builds the generator.
Cutoff ==
    /\ pc = "cutoff"
    /\ \E err \in BOOLEAN :
         LET latest == latest_message_timestamp(db["run1"], store, err)
         IN  /\ IF since = "None"
                THEN get_latest_message_timestamp("run1", err) /\ storeOps' = storeOps + 1
                ELSE ~err /\ UNCHANGED <<storeVars, storeOps>>
             /\ IF since = "None" /\ latest = "raise"
                THEN Except /\ UNCHANGED <<cutoffs, gateway, gen>>
                ELSE /\ cutoffs' = Append(cutoffs, effective_cutoff(since, latest))
                     /\ gateway' = gateway \cup {"get_all_messages"}
                     /\ gen' = [offset |-> 0, buf |-> <<>>, more |-> TRUE]
                     /\ pc' = "iterate"
                     /\ UNCHANGED <<result, notifications>>
    /\ UNCHANGED <<gwVars, variant, config, since, upstream, cur, msgq, processed_count,
                   error_count, disconnects, connectRet, insertCalls, log, authFailed>>

\* What a gateway call can fail with: HostawayAPIError raised for the request
\* itself, or by _get_access_token when the credentials grant fails.
GatewayErrors == {"api_error", "auth_error"}

\* The generator asks for the next page; HostawayAPIError leaves the loop.
\* In dry-run mode _make_request answers with an empty result.
Fetch ==
    /\ pc = "iterate"
    /\ gen.buf = <<>>
    /\ gen.more
    /\ gateway' = gateway \cup {"get_messages"}
    /\ \E ok \in BOOLEAN :
        /\ dryRun => ok
        /\ IF ok
           THEN /\ gen' = next_page(gen, IF dryRun THEN <<>> ELSE Page(gen.offset))
                /\ UNCHANGED <<pc, notifications, result, authFailed>>
           ELSE /\ Except
                /\ UNCHANGED gen
                /\ \E e \in GatewayErrors : authFailed' = (authFailed \/ e = "auth_error")
    /\ UNCHANGED <<gwVars, storeVars, runConst, cur, msgq, processed_count, error_count,
                   disconnects, storeOps, connectRet, insertCalls, log>>

\* The generator is exhausted: return self.error_count == 0.
Complete ==
    /\ pc = "iterate"
    /\ gen.buf = <<>>
    /\ ~gen.more
    /\ result' = IF error_count = 0 THEN "True" ELSE "False"
    /\ pc' = "finally"
    /\ UNCHANGED <<gwVars, storeVars, runConst, gen, cur, msgq, processed_count, error_count,
                   notifications, disconnects, storeOps, gateway, connectRet,
                   insertCalls, log, authFailed>>

\* src: the loop body up to the messages of the conversation.
Conversation ==
    /\ pc = "iterate"
    /\ gen.buf # <<>>
    /\ variant = "src"
    /\ LET ci == Head(gen.buf)
           c == upstream[ci]
       IN  /\ gen' = [gen EXCEPT !.buf = Tail(@)]
           /\ IF ~c.id
              THEN /\ log' = Append(log, Entry(ci, 0, "noid"))
                   /\ UNCHANGED <<gateway, cur, msgq, pc, authFailed>>
              ELSE /\ gateway' = gateway \cup {"get_conversation_messages"}
                   /\ \E ok \in BOOLEAN :
                        IF ~ok
                        THEN /\ log' = Append(log, Entry(ci, 0, "fetch_error"))
                             /\ \E e \in GatewayErrors :
                                  authFailed' = (authFailed \/ e = "auth_error")
                             /\ UNCHANGED <<cur, msgq, pc>>
                        ELSE IF c.msgs = <<>>
                        THEN /\ log' = Append(log, Entry(ci, 0, "no_messages"))
                             /\ UNCHANGED <<cur, msgq, pc, authFailed>>
                        ELSE /\ cur' = ci
                             /\ msgq' = [i \in 1..Len(c.msgs) |-> i]
                             /\ pc' = "messages"
                             /\ UNCHANGED <<log, authFailed>>
    /\ UNCHANGED <<gwVars, storeVars, runConst, processed_count, error_count, result,
                   notifications, disconnects, storeOps, connectRet, insertCalls>>

\* src: _process_message on the next message of the conversation, and the
\* counting of its result.  A failed enrichment lookup is caught inside the
\* transformer.
ProcessSrc ==
    /\ pc = "messages"
    /\ LET mi == Head(msgq)
           c == upstream[cur]
           raised == c.bad \/ c.msgs[mi]
       IN  /\ msgq' = Tail(msgq)
           /\ pc' = IF Tail(msgq) = <<>> THEN "iterate" ELSE "messages"
           /\ \E lookup \in {"none", "ok"} \cup GatewayErrors :
                /\ gateway' = IF lookup # "none" THEN gateway \cup {"lookup"} ELSE gateway
                /\ authFailed' = (authFailed \/ lookup = "auth_error")
           /\ IF raised
              THEN /\ UNCHANGED <<storeVars, insertCalls, storeOps>>
                   /\ Tally(process_message_src(TRUE, "none"))
                   /\ log' = Append(log, Entry(cur, mi, "transform_error"))
              ELSE /\ \E err \in BOOLEAN : insert_message("run1", MessageDoc(cur, mi), err)
                   /\ insertCalls' = insertCalls + 1
                   /\ storeOps' = storeOps + 1
                   /\ Tally(process_message_src(FALSE, last'.ret))
                   /\ log' = Append(log, Entry(cur, mi,
                                IF last'.ret = "True" THEN "persisted" ELSE "insert_false"))
    /\ UNCHANGED <<gwVars, runConst, gen, cur, result, notifications, disconnects, connectRet>>

\* pkg: _process_message on the next record, and the counting of its result.
\* The transformer's gateway lookups are not caught inside it.
ProcessPkg ==
    /\ pc = "iterate"
    /\ gen.buf # <<>>
    /\ variant = "pkg"
    /\ LET ci == Head(gen.buf)
           c == upstream[ci]
           id == IF c.id THEN ci ELSE 0
       IN  /\ gen' = [gen EXCEPT !.buf = Tail(@)]
           /\ gateway' = gateway \cup {"get_conversation_messages"}
           /\ \E lookupFails \in BOOLEAN :
                IF c.bad \/ lookupFails
                THEN /\ UNCHANGED <<storeVars, insertCalls, storeOps>>
                     /\ Tally(process_message_pkg(TRUE, "none"))
                     /\ log' = Append(log, Entry(ci, 0,
                                  IF lookupFails THEN "lookup_error" ELSE "transform_error"))
                     /\ IF lookupFails
                        THEN \E e \in GatewayErrors :
                                authFailed' = (authFailed \/ e = "auth_error")
                        ELSE UNCHANGED authFailed
                ELSE /\ UNCHANGED authFailed
                     /\ \E err \in BOOLEAN : insert_message("run1", MessageDoc(id, 0), err)
                     /\ insertCalls' = insertCalls + 1
                     /\ storeOps' = storeOps + 1
                     /\ Tally(process_message_pkg(FALSE, last'.ret))
                     /\ log' = Append(log, Entry(ci, 0,
                                  IF last'.ret = "True" THEN "persisted" ELSE "insert_false"))
    /\ UNCHANGED <<gwVars, runConst, pc, cur, msgq, result, notifications, disconnects, connectRet>>

\* finally: db.disconnect()
Finally ==
    /\ pc = "finally"
    /\ disconnect("run1")
    /\ disconnects' = disconnects + 1
    /\ pc' = "done"
    /\ UNCHANGED <<gwVars, runConst, gen, cur, msgq, processed_count, error_count, result,
                   notifications, storeOps, gateway, connectRet, insertCalls, log,
                   authFailed>>

InitETL ==
    /\ NoGateway
    /\ InitAdapters
    /\ store \in EarlierStores
    /\ variant \in {"src", "pkg"}
    /\ config \in [required_vars -> BOOLEAN]
    /\ since \in {"None", "2023-01-01T00:00:00"}
    /\ cutoffs = <<>>
    /\ upstream \in Upstreams
    /\ pc = "start"
    /\ gen = [offset |-> 0, buf |-> <<>>, more |-> TRUE]
    /\ cur = 0
    /\ msgq = <<>>
    /\ processed_count = 0
    /\ error_count = 0
    /\ result = "none"
    /\ notifications = 0
    /\ disconnects = 0
    /\ storeOps = 0
    /\ gateway = {}
    /\ connectRet = "none"
    /\ insertCalls = 0
    /\ log = <<>>
    /\ authFailed = FALSE

NextETL ==
    \/ Validate
    \/ EtlConnect
    \/ Cutoff
    \/ Fetch
    \/ Complete
    \/ Conversation
    \/ ProcessSrc
    \/ ProcessPkg
    \/ Finally

SpecETL == InitETL /\ [][NextETL]_vars

-----------------------------------------------------------------------------
(* SpecPages: get_all_messages of src/api/hostaway_client.py, consumed to   *)
(* its end, over get_messages answered by a stub (a list of pages handed    *)
(* out call after call, whatever the offset) or by a server that slices     *)
(* the records it holds by offset and limit.                                *)

\* "limit = 100" of get_all_messages
limit == 100

\* The longest list of pages a stub holds.
MaxPages == 3

\* More get_messages calls than any consumption needs.
MaxRequests == MaxPages + 2

PageSizes == {0, 1, 2, limit}

Stubs == UNION {[1..n -> PageSizes] : n \in 0..MaxPages}

\* The numbers of records a server holds: none, few, one page but one, one
\* page, one page and one, two pages.
ServerSizes == {0, 1, limit - 1, limit, limit + 1, 2 * limit}

Responders ==
    {[kind |-> "stub", sizes |-> z] : z \in Stubs}
        \cup {[kind |-> "server", n |-> n] : n \in ServerSizes}

\* What the k-th call get_messages(since, lim, off) returns: the records of
\* the page.  A stub's record is <<page, position>>, a server's record its
\* position in the listing.
get_messages_result(r, k, lim, off) ==
    IF r.kind = "stub"
    THEN IF k <= Len(r.sizes) THEN [i \in 1..r.sizes[k] |-> <<k, i>>] ELSE <<>>
    ELSE LET n == IF r.n - off > lim THEN lim
                  ELSE IF r.n - off > 0 THEN r.n - off ELSE 0
         IN  [i \in 1..n |-> <<0, off + i>>]

\* A generator that asks for the same page again
same_offset(off) == off

\* "offset += limit"
next_offset(off) == off + limit

\* A generator that goes on after a short page
never_last(page) == FALSE

\* "if len(messages) < limit: break"
short_page(page) == Len(page) < limit

\* response = self.get_messages(since_timestamp, limit, offset), which may
\* raise HostawayAPIError; "if not messages: break".  In dry-run mode
\* _make_request answers with an empty result without asking the server.
GetPage ==
    /\ gpc = "request"
    /\ Len(calls) < MaxRequests
    /\ calls' = Append(calls, page_offset)
    /\ \E ok \in BOOLEAN :
         IF ~ok
         THEN gpc' = "raised" /\ UNCHANGED <<messages, page_pos>>
         ELSE LET page == IF dryRun /\ responder.kind = "server"
                          THEN <<>>
                          ELSE get_messages_result(responder, Len(calls) + 1, limit, page_offset)
              IN  /\ messages' = page
                  /\ page_pos' = 0
                  /\ gpc' = IF page = <<>> THEN "ended" ELSE "yield"
    /\ UNCHANGED <<responder, page_offset, total_retrieved, yielded>>
    /\ UNCHANGED <<storeVars, etlVars, reqVars, auxVars>>

\* "for message in messages: total_retrieved += 1; yield message"
Yield ==
    /\ gpc = "yield"
    /\ page_pos < Len(messages)
    /\ total_retrieved' = total_retrieved + 1
    /\ yielded' = Append(yielded, messages[page_pos + 1])
    /\ page_pos' = page_pos + 1
    /\ UNCHANGED <<responder, page_offset, messages, gpc, calls>>
    /\ UNCHANGED <<storeVars, etlVars, reqVars, auxVars>>

\* After the page: "offset += limit" and the break on a short page.
PageDone ==
    /\ gpc = "yield"
    /\ page_pos = Len(messages)
    /\ page_offset' = next_offset(page_offset)
    /\ gpc' = IF short_page(messages) THEN "ended" ELSE "request"
    /\ UNCHANGED <<responder, messages, page_pos, total_retrieved, calls, yielded>>
    /\ UNCHANGED <<storeVars, etlVars, reqVars, auxVars>>

InitPages ==
    /\ InitStore
    /\ NoRun
    /\ NoRequest
    /\ NoAux
    /\ responder \in Responders
    /\ page_offset = 0
    /\ messages = <<>>
    /\ page_pos = 0
    /\ total_retrieved = 0
    /\ gpc = "request"
    /\ calls = <<>>
    /\ yielded = <<>>

NextPages ==
    \/ GetPage
    \/ Yield
    \/ PageDone

SpecPages == InitPages /\ [][NextPages]_vars

\* The consumer (a for loop) takes every record and the generator runs on
\* between two records.
SpecPagesLive == SpecPages /\ WF_vars(NextPages)

-----------------------------------------------------------------------------
(* SpecRequest: one call of _make_request of src/api/hostaway_client.py,    *)
(* with the token it finds and the answers its HTTP calls get.              *)

\* "max_retries = 3" of _make_request
request_max_retries == 3

\* "retry_delay = 2" of _make_request
retry_delay == 2

\* config.API_REQUEST_DELAY, by default
API_REQUEST_DELAY == 1

\* What an HTTP call can get: a 200 whose body has status "success"; a 401;
\* a 403; another error status (raise_for_status raises HTTPError); no
\* response (requests.request raises ConnectionError or Timeout); a 200
\* whose body has another status, with and without a message.
Answers == {"ok", "401", "403", "http_error", "transport", "api_error", "api_error_nomsg"}

Scripts == [1..request_max_retries -> Answers]

\* "response.status_code == 401 or response.status_code == 403"
auth_error(r) == r \in {"401", "403"}

\* The answers that end in "except requests.exceptions.RequestException".
request_exception(r) == r \in {"transport", "http_error"}

\* A check of the body that lets every status through
api_level_accepted(r) == FALSE

\* response_data.get("status") != "success"
api_level_error(r) == r \in {"api_error", "api_error_nomsg"}

\* response_data.get("message", "Unknown API error")
error_message(r) == IF r = "api_error" THEN "API Error" ELSE "Unknown API error"

\* A delay that does not grow
flat_backoff(att) == retry_delay

\* time.sleep(retry_delay * attempt)
backoff(att) == retry_delay * att

\* The sleep that opens an attempt.
sleep_before(att) == IF att > 0 THEN backoff(att) ELSE API_REQUEST_DELAY

\* _get_access_token() without a valid token: the credentials grant, which
\* raises HostawayAPIError("Authentication failed: ...") when it fails.
\* after is what follows in the caller when the token was obtained.
grant_token(ok, after) ==
    /\ grants' = grants + 1
    /\ IF ok
       THEN access_token' = TRUE /\ after
       ELSE /\ access_token' = FALSE
            /\ rpc' = "raised"
            /\ req_result' = "Authentication failed"
            /\ UNCHANGED attempt

\* "except RequestException" that never raises
attempt_goes_on == attempt' = attempt + 1 /\ UNCHANGED <<rpc, req_result>>

\* "except RequestException": raise after the last attempt, else loop on.
attempt_failed ==
    IF attempt = request_max_retries - 1
    THEN rpc' = "raised" /\ req_result' = "Failed after 3 attempts" /\ UNCHANGED attempt
    ELSE attempt' = attempt + 1 /\ UNCHANGED <<rpc, req_result>>

\* _make_request without its dry-run return
BeginLive ==
    /\ rpc = "start"
    /\ IF access_token
       THEN /\ rpc' = "attempt"
            /\ UNCHANGED <<access_token, attempt, grants, req_result>>
       ELSE \E ok \in BOOLEAN :
               grant_token(ok, rpc' = "attempt" /\ UNCHANGED <<attempt, req_result>>)
    /\ UNCHANGED <<script, http_calls, refreshes, sleeps, responses>>
    /\ UNCHANGED <<storeVars, etlVars, pageVars, auxVars>>

\* The start of _make_request: the dry-run return, else the token.
Begin ==
    /\ rpc = "start"
    /\ IF dryRun
       THEN /\ rpc' = "returned"
            /\ req_result' = "dry_run"
            /\ UNCHANGED <<access_token, attempt, grants>>
       ELSE IF access_token
       THEN /\ rpc' = "attempt"
            /\ UNCHANGED <<access_token, attempt, grants, req_result>>
       ELSE \E ok \in BOOLEAN :
               grant_token(ok, rpc' = "attempt" /\ UNCHANGED <<attempt, req_result>>)
    /\ UNCHANGED <<script, http_calls, refreshes, sleeps, responses>>
    /\ UNCHANGED <<storeVars, etlVars, pageVars, auxVars>>

\* One turn of "for attempt in range(max_retries)"; when the range is
\* exhausted the function ends with no return statement, returning None.
Attempt ==
    /\ rpc = "attempt"
    /\ IF attempt >= request_max_retries
       THEN /\ rpc' = "returned"
            /\ req_result' = "None"
            /\ UNCHANGED <<access_token, attempt, grants, refreshes, sleeps, http_calls,
                           responses>>
       ELSE
       LET r == script[attempt + 1]
       IN  /\ sleeps' = Append(sleeps, sleep_before(attempt))
           /\ http_calls' = http_calls + 1
           /\ responses' = Append(responses, r)
           /\ IF r = "transport"
              THEN attempt_failed /\ UNCHANGED <<access_token, grants, refreshes>>
              ELSE IF auth_error(r) /\ attempt < request_max_retries - 1
              THEN /\ refreshes' = refreshes + 1
                   /\ \E ok \in BOOLEAN :
                        grant_token(ok, attempt' = attempt + 1 /\ UNCHANGED <<rpc, req_result>>)
              ELSE IF auth_error(r) \/ r = "http_error"
              THEN attempt_failed /\ UNCHANGED <<access_token, grants, refreshes>>
              ELSE IF api_level_error(r)
              THEN /\ rpc' = "raised"
                   /\ req_result' = error_message(r)
                   /\ UNCHANGED <<access_token, attempt, grants, refreshes>>
              ELSE /\ rpc' = "returned"
                   /\ req_result' = "response"
                   /\ UNCHANGED <<access_token, attempt, grants, refreshes>>
    /\ UNCHANGED script
    /\ UNCHANGED <<storeVars, etlVars, pageVars, auxVars>>

InitRequest ==
    /\ InitStore
    /\ NoRun
    /\ NoPages
    /\ NoAux
    /\ access_token \in BOOLEAN
    /\ script \in Scripts
    /\ attempt = 0
    /\ rpc = "start"
    /\ http_calls = 0
    /\ grants = 0
    /\ refreshes = 0
    /\ sleeps = <<>>
    /\ responses = <<>>
    /\ req_result = "none"

NextRequest ==
    \/ Begin
    \/ Attempt

SpecRequest == InitRequest /\ [][NextRequest]_vars

\* The call runs on: nothing suspends a thread inside _make_request for ever
\* (each sleep is finite, each HTTP call is answered or fails).
SpecRequestFair == SpecRequest /\ WF_vars(NextRequest)

(***************************************************************************)
(* SpecToken: the token of one HostawayClient over a sequence of requests  *)
(* that get no 401 or 403, while the clock runs.                           *)
(***************************************************************************)

MaxClock == 24
MaxGrants == 3

\* token_data.get("expires_in", 15897600)
default_expires_in == 15897600
NotReported == -1
ExpiresIn == {NotReported, 0, 10, 20}
reported_expires_in(e) == IF e = NotReported THEN default_expires_in ELSE e

\* "dry_run_token", valid for timedelta(days=30)
DryRunToken == -1
dry_run_days == 30
dry_run_lifetime == dry_run_days * 86400

\* What the credentials grant answers: an HTTP or transport failure, or a
\* body with or without an access_token, with or without an expires_in.
GrantAnswers == [ok : BOOLEAN, access_token : BOOLEAN, expires_in : ExpiresIn]

\* The validity test skipped: every call asks for a new token.
token_never_valid(tok, exp, t) == FALSE

\* self.access_token and self.token_expires_at and datetime.now() < self.token_expires_at
token_valid(tok, exp, t) == tok # NoToken /\ exp # NoExpiry /\ t < exp

\* timedelta(seconds=expires_in * 0.9)
lifetime(e) == (e * 9) \div 10

\* _get_access_token(), called by call.
get_access_token(call) ==
    IF token_valid(token, token_expires_at, now)
    THEN /\ sent' = [call |-> call, cached |-> token, valid |-> TRUE, granted |-> FALSE,
                     attached |-> token, raised |-> FALSE]
         /\ UNCHANGED <<token, token_expires_at, issued, token_grants>>
    ELSE IF dryRun
    THEN /\ token' = DryRunToken
         /\ token_expires_at' = now + dry_run_lifetime
         /\ issued' = [at |-> now, expires_in |-> dry_run_lifetime]
         /\ sent' = [call |-> call, cached |-> token, valid |-> FALSE, granted |-> FALSE,
                     attached |-> DryRunToken, raised |-> FALSE]
         /\ UNCHANGED token_grants
    ELSE /\ token_grants < MaxGrants
         /\ token_grants' = token_grants + 1
         /\ \E g \in GrantAnswers :
              IF g.ok
              THEN /\ token' = (IF g.access_token THEN token_grants + 1 ELSE NoToken)
                   /\ token_expires_at' = now + lifetime(reported_expires_in(g.expires_in))
                   /\ issued' = [at |-> now, expires_in |-> reported_expires_in(g.expires_in)]
                   /\ sent' = [call |-> call, cached |-> token, valid |-> FALSE,
                               granted |-> TRUE, attached |-> token', raised |-> FALSE]
              ELSE /\ sent' = [call |-> call, cached |-> token, valid |-> FALSE,
                               granted |-> TRUE, attached |-> NoToken, raised |-> TRUE]
                   /\ UNCHANGED <<token, token_expires_at, issued>>

\* A direct call of _get_access_token().
GetToken ==
    /\ get_access_token("_get_access_token")
    /\ UNCHANGED now
    /\ UNCHANGED <<storeVars, etlVars, pageVars, reqVars, trVars, lateVars>>

\* _make_request up to its headers: the dry-run return, else the token that
\* goes into "Authorization: Bearer ...".
TokenRequest ==
    /\ IF dryRun
       THEN /\ sent' = [call |-> "_make_request", cached |-> token, valid |-> FALSE,
                        granted |-> FALSE, attached |-> NoToken, raised |-> FALSE]
            /\ UNCHANGED <<token, token_expires_at, issued, token_grants>>
       ELSE get_access_token("_make_request")
    /\ UNCHANGED now
    /\ UNCHANGED <<storeVars, etlVars, pageVars, reqVars, trVars, lateVars>>

\* Time passes between two calls.
Tick ==
    /\ now < MaxClock
    /\ now' = now + 1
    /\ UNCHANGED <<token, token_expires_at, issued, token_grants, sent>>
    /\ UNCHANGED <<storeVars, etlVars, pageVars, reqVars, trVars, lateVars>>

InitToken == InitStore /\ NoRun /\ NoRequest /\ NoPages /\ NoTokens /\ NoRecord /\ NoLate

NextToken ==
    \/ GetToken
    \/ TokenRequest
    \/ Tick

SpecToken == InitToken /\ [][NextToken]_vars

(***************************************************************************)
(* SpecDryRun: a process started with ENABLE_DRY_RUN set, calling the      *)
(* methods of its store adapter and of its gateway in any order.  Every    *)
(* gateway method but _get_access_token goes through _make_request.        *)
(***************************************************************************)

\* A call of get_messages, get_conversation_messages, get_property_details
\* or get_reservation_details enters _make_request.
GatewayCall ==
    /\ rpc \in {"idle", "returned", "raised"}
    /\ rpc' = "start"
    /\ attempt' = 0
    /\ req_result' = "none"
    /\ \E sc \in {[i \in 1..request_max_retries |-> "ok"],
                  [i \in 1..request_max_retries |-> "401"]} : script' = sc
    /\ UNCHANGED <<access_token, http_calls, grants, refreshes, sleeps, responses>>
    /\ UNCHANGED <<storeVars, etlVars, pageVars, auxVars>>

InitDryRun == InitStore /\ dryRun /\ NoRun /\ NoGateway

NextDryRun ==
    \/ Connect
    \/ Disconnect
    \/ Insert
    \/ Latest
    \/ Count
    \/ GetToken
    \/ GatewayCall
    \/ Begin

SpecDryRun == InitDryRun /\ [][NextDryRun]_vars

(***************************************************************************)
(* SpecTransform: one record of the listing taken through the loop body of *)
(* extract_transform_load and _process_message, in either pipeline module, *)
(* on a connected store that accepts the upsert.  A type tag is the        *)
(* sequence of its words: "guest-host-email" is <<"guest","host","email">>. *)
(***************************************************************************)

TypeTags ==
    { <<>>,
      <<"guest", "host", "email">>,
      <<"host", "guest", "email">>,
      <<"guest", "sms">>,
      <<"automated">>,
      <<"automated", "reply">> }

RawRecords ==
    [isIncoming : {"absent", "true", "false"},
     type : TypeTags,
     body : {"absent", "", "inline"},
     listingName : {"absent", "null", "Villa"},
     reservationId : {"absent", "null", "r1"},
     guest : {"absent", "Inline"}]

\* get_conversation_messages: HostawayAPIError, an empty list, a list whose
\* first entry has no body, a list whose first entry has the body "first".
Threads == {"error", "none", "nobody", "first"}

\* message_data.get("type", "").startswith(word)
startswith(tag, word) == tag # <<>> /\ tag[1] = word

\* src: message_data = dict(conversation_data); message_data.update(msg)
merged(r, th) == IF th = "first" THEN [r EXCEPT !.body = "first"] ELSE r

\* src: direction
direction_src(r) ==
    IF r.isIncoming # "absent"
    THEN (IF r.isIncoming = "true" THEN "incoming" ELSE "outgoing")
    ELSE IF r.type = <<"guest", "host", "email">> THEN "incoming" ELSE "outgoing"

\* pkg: direction
direction_pkg(r) == IF startswith(r.type, "guest") THEN "incoming" ELSE "outgoing"

\* src: message_type="manual"
message_type_src(r) == "manual"

\* pkg: message_type
message_type_pkg(r) == IF startswith(r.type, "automated") THEN "automated" ELSE "manual"

\* src: content = message_data.get("body", "")
content_src(r) == IF r.body = "absent" THEN "" ELSE r.body

\* pkg: the body of the first conversation message, "" without one.
content_pkg(th) == IF th = "first" THEN "first" ELSE ""

\* src: "if property_id and not property_name": the lookup is made for a
\* record whose listingName is missing or null.
property_called_src(r) == r.listingName \in {"absent", "null"}

\* src: the name of the record, else of the lookup; after a failed lookup
\* what message_data.get("listingName", "") gave: "", or None for a null.
property_name_src(r, l) ==
    IF ~property_called_src(r) THEN r.listingName
    ELSE IF l.property = "ok" THEN "Looked up"
    ELSE IF r.listingName = "absent" THEN "" ELSE "None"

\* str(message_data.get(key, "")): "" for a missing key, "None" for a null.
str(v) == IF v = "absent" THEN "" ELSE IF v = "null" THEN "None" ELSE v

\* "if reservation_id:" on the string str() made
reservation_called(r) == str(r.reservationId) # ""

\* Reservation(id, price), None when reservation_id is ""; the price is None
\* when the lookup failed.
reservation_of(r, l) ==
    IF ~reservation_called(r) THEN NoReservation
    ELSE [present |-> TRUE, id |-> str(r.reservationId),
          price |-> IF l.reservation = "ok" THEN "100.0" ELSE "None"]

\* src: the guest of the reservation when the record has a reservation id
\* (name "" and the rest None when the lookup fails), else of the record;
\* email stands for email, phone and nationality.
guest_src(r, l) ==
    IF reservation_called(r)
    THEN IF l.reservation = "ok"
         THEN [name |-> "Looked up", email |-> "Looked up"]
         ELSE [name |-> "", email |-> "None"]
    ELSE IF r.guest = "absent"
         THEN [name |-> "", email |-> "None"]
         ELSE [name |-> r.guest, email |-> r.guest]

\* pkg: recipientName, recipientEmail and phone of the record.
guest_pkg(r) ==
    IF r.guest = "absent"
    THEN [name |-> "", email |-> "None"]
    ELSE [name |-> r.guest, email |-> r.guest]

\* src: _transform_message, which catches HostawayAPIError of both lookups,
\* under _process_message's "except Exception": Property(name=None) is
\* refused by the model's validation.
transform_message_src(r, l) ==
    LET called == {c \in {"property"} : property_called_src(r)}
                  \cup {c \in {"reservation"} : reservation_called(r)}
    IN  IF property_name_src(r, l) = "None"
        THEN [status |-> "error", called |-> called, message |-> NoMessage]
        ELSE [status |-> "processed",
              called |-> called,
              message |-> [direction |-> direction_src(r),
                           message_type |-> message_type_src(r),
                           content |-> content_src(r),
                           property_name |-> property_name_src(r, l),
                           guest |-> guest_src(r, l),
                           reservation |-> reservation_of(r, l)]]

\* pkg: _transform_message under _process_message's "except Exception": the
\* first gateway call that raises ends it.
transform_message_pkg(r, th, l) ==
    IF th = "error"
    THEN [status |-> "error", called |-> {}, message |-> NoMessage]
    ELSE IF l.property = "error"
    THEN [status |-> "error", called |-> {"property"}, message |-> NoMessage]
    ELSE IF reservation_called(r) /\ l.reservation = "error"
    THEN [status |-> "error", called |-> {"property", "reservation"}, message |-> NoMessage]
    ELSE [status |-> "processed",
          called |-> {"property"} \cup {c \in {"reservation"} : reservation_called(r)},
          message |-> [direction |-> direction_pkg(r),
                       message_type |-> message_type_pkg(r),
                       content |-> content_pkg(th),
                       property_name |-> "Looked up",
                       guest |-> guest_pkg(r),
                       reservation |-> reservation_of(r, l)]]

\* The loop body on one record.  src skips a conversation whose messages
\* cannot be fetched or are none, and transforms the record merged with the
\* message; pkg hands the record to _process_message.
ProcessRecord ==
    /\ out = NoOutcome
    /\ out' = IF module = "src"
              THEN IF thread \in {"error", "none"}
                   THEN [status |-> "skipped", called |-> {}, message |-> NoMessage]
                   ELSE transform_message_src(merged(rec, thread), lookups)
              ELSE transform_message_pkg(rec, thread, lookups)
    /\ UNCHANGED <<module, rec, thread, lookups>>
    /\ UNCHANGED <<storeVars, etlVars, pageVars, reqVars, tokVars, lateVars>>

InitTransform ==
    /\ InitStore
    /\ ~dryRun
    /\ NoRun
    /\ NoRequest
    /\ NoPages
    /\ NoTokens
    /\ NoLate
    /\ module \in {"src", "pkg"}
    /\ rec \in RawRecords
    /\ thread \in Threads
    /\ lookups \in [property : {"ok", "error"}, reservation : {"ok", "error"}]
    /\ out = NoOutcome

NextTransform == ProcessRecord

SpecTransform == InitTransform /\ [][NextTransform]_vars

(***************************************************************************)
(* SpecValidate: _process_message, in either pipeline module, on records   *)
(* whose canonical message is built with the given direction and           *)
(* message_type, over a connected store.                                   *)
(***************************************************************************)

\* The most records handed to _process_message.
MaxRecords == 3

\* The values the Message constructor is given.
Candidates ==
    [message_id : MsgIds,
     direction : {"incoming", "outgoing", "Incoming", ""},
     message_type : {"automated", "manual", "auto"}]

\* A validator that lets every value through
validate_any(v) == TRUE

\* Message.validate_direction: ValueError unless the value is one of the two.
validate_direction(v) == v \in {"incoming", "outgoing"}

\* Message.validate_message_type
validate_message_type(v) == v \in {"automated", "manual"}

\* Message(...): ValidationError when a validator raises; nothing is
\* changed in the value that passes.
MessageRaises(c) == ~(validate_direction(c.direction) /\ validate_message_type(c.message_type))

\* _process_message on a record whose message is built from c: the
\* constructor's error is caught by "except Exception" before insert_message
\* is reached.
ProcessCandidate ==
    /\ processed_count + error_count < MaxRecords
    /\ \E c \in Candidates :
         /\ IF MessageRaises(c)
            THEN /\ UNCHANGED <<storeVars, insertCalls>>
                 /\ Tally(IF module = "src" THEN process_message_src(TRUE, "none")
                          ELSE process_message_pkg(TRUE, "none"))
                 /\ out' = [status |-> "error", called |-> {}, message |-> c]
            ELSE /\ \E err \in BOOLEAN : insert_message("run1", c, err)
                 /\ insertCalls' = insertCalls + 1
                 /\ Tally(IF module = "src" THEN process_message_src(FALSE, last'.ret)
                          ELSE process_message_pkg(FALSE, last'.ret))
                 /\ out' = [status |-> IF last'.ret = "True" THEN "processed" ELSE "error",
                            called |-> {}, message |-> c]
    /\ UNCHANGED <<runConst, pc, gen, cur, msgq, result, notifications, disconnects, storeOps,
                   gateway, connectRet, log, authFailed>>
    /\ UNCHANGED <<pageVars, reqVars, tokVars, lateVars, module, rec, thread, lookups>>

InitValidate ==
    /\ dryRun = FALSE
    /\ store = <<>>
    /\ uniqueIndex = TRUE
    /\ db = [a \in Adapters |->
                IF a = "run1" THEN [client |-> TRUE, collection |-> TRUE, connected |-> TRUE]
                ELSE NewAdapter]
    /\ pend = [a \in Adapters |-> NoDict]
    /\ last = NoCall
    /\ twice = FALSE
    /\ NoRun
    /\ NoRequest
    /\ NoPages
    /\ NoTokens
    /\ NoLate
    /\ module \in {"src", "pkg"}
    /\ rec = [isIncoming |-> "absent", type |-> <<>>, body |-> "absent",
              listingName |-> "absent", reservationId |-> "absent", guest |-> "absent"]
    /\ thread = "none"
    /\ lookups = [property |-> "ok", reservation |-> "ok"]
    /\ out = NoOutcome

NextValidate == ProcessCandidate

SpecValidate == InitValidate /\ [][NextValidate]_vars

(***************************************************************************)
(* SpecCLI: one run of main() of src/main.py with the etl command.  A      *)
(* time is the number of its day, and its isoformat() the numeral.         *)
(***************************************************************************)

\* The largest --days tried.
MaxDays == 3

\* The days on which the command is run.
RunDays == MaxDays..(MaxDays + 9)

\* --since (None when not given) and --days (type=int, None when not given).
Arguments ==
    [since_timestamp : {"None", "2023-01-01T00:00:00"},
     days_given : BOOLEAN,
     days_ago : 0..MaxDays]

\* "elif args.days_ago:" is taken for a day count that is not None and not 0.
days_branch(a) == a.days_given /\ a.days_ago # 0

\* main: the since_timestamp it determines.
since_of(a, t) ==
    IF a.since_timestamp # "None" THEN a.since_timestamp
    ELSE IF days_branch(a) THEN ToString(t - a.days_ago)
    ELSE "None"

\* sys.exit(1) when the run was not a success; falling off main exits with 0.
exit_status(success) == IF success THEN 0 ELSE 1

Main ==
    /\ exit_code = NotExited
    /\ invoked' = since_of(args, today)
    /\ \E success \in BOOLEAN :
         /\ run_returned' = IF success THEN "True" ELSE "False"
         /\ exit_code' = exit_status(success)
    /\ UNCHANGED <<args, today>>
    /\ UNCHANGED <<storeVars, etlVars, pageVars, reqVars, tokVars, trVars, moreVars>>

InitCLI ==
    /\ InitStore
    /\ NoRun
    /\ NoRequest
    /\ NoPages
    /\ NoTokens
    /\ NoRecord
    /\ NoMore
    /\ args \in {a \in Arguments : ~a.days_given => a.days_ago = 0}
    /\ today \in RunDays
    /\ invoked = "pending"
    /\ run_returned = "none"
    /\ exit_code = NotExited

NextCLI == Main

SpecCLI == InitCLI /\ [][NextCLI]_vars

-----------------------------------------------------------------------------
(* SpecAPI: the read API over the adapter of its process. A request is one  *)
(* step; between requests the adapter is connected and disconnected.        *)
(***************************************************************************)

\* The number of requests followed.
MaxServed == 2

\* The skip and limit parameters tried (skip >= 0, 1 <= limit <= 100).
Skips == {0, 1}
Limits == {1, 2}

\* An endpoint without the test of db.connected
api_guard_missing(h) == FALSE

\* "if not db.connected: raise HTTPException(status_code=503, ...)"
service_unavailable(h) == ~h.connected

\* Message(**doc): the required fields of the model must all be there.
message_of(doc) == DOMAIN doc = CanonicalFields

\* find().skip(skip).limit(limit): the documents returned, in stored order.
find_skip_limit(s, skip, lim) ==
    SubSeq(s, skip + 1, IF skip + lim < Len(s) THEN skip + lim ELSE Len(s))

\* The answer of an endpoint: 503 before anything else when the adapter is
\* not connected; 500 when the collection operation raises PyMongoError (err)
\* and, from the framework, when another exception leaves the handler (a
\* collection that is None, a document Message refuses); 404 from
\* get_message when find_one returns no document; else 200.
answer(op, h, docs, missing, err) ==
    IF service_unavailable(h) THEN 503
    ELSE IF ~h.collection THEN 500
    ELSE IF err THEN 500
    ELSE IF missing THEN 404
    ELSE IF \E i \in 1..Len(docs) : ~message_of(docs[i]) THEN 500
    ELSE 200

Respond(op, id, docs, missing, err) ==
    /\ served' = served + 1
    /\ response' =
          [op |-> op, id |-> id,
           status |-> answer(op, db["run1"], docs, missing, err),
           conn |-> db["run1"].connected,
           touched |-> (~service_unavailable(db["run1"]) /\ db["run1"].collection),
           err |-> (~service_unavailable(db["run1"]) /\ db["run1"].collection /\ err),
           found |-> ~missing,
           returned |-> IF answer(op, db["run1"], docs, missing, err) = 200
                        THEN Len(docs) ELSE 0]
    /\ UNCHANGED <<storeVars, etlVars, pageVars, reqVars, tokVars, trVars, cliVars, jobVars,
                   runsVars>>

\* GET /messages?skip=..&limit=..
list_messages ==
    /\ served < MaxServed
    /\ \E skip \in Skips, lim \in Limits, err \in BOOLEAN :
         Respond("list_messages", "", find_skip_limit(store, skip, lim), FALSE, err)

\* GET /messages/{message_id}
get_message ==
    /\ served < MaxServed
    /\ \E id \in MsgIds, err \in BOOLEAN :
         Respond("get_message", id,
                 IF Matching(store, id) = {} THEN <<>> ELSE <<store[FirstMatch(store, id)]>>,
                 Matching(store, id) = {}, err)

\* The collections the API is started on: documents the pipeline wrote
\* (every field of the model) and documents written through the adapter
\* without them.
ServedDocs == {d \in Dicts : d.message_id = "m1" /\ (DOMAIN d = CanonicalFields => d.timestamp = 1)}
ServedStores == UNION {[1..n -> ServedDocs] : n \in 0..MaxServed}

InitAPI == InitAdapters /\ store \in ServedStores /\ NoRun /\ NoGateway

NextAPI ==
    \/ Connect
    \/ Disconnect
    \/ list_messages
    \/ get_message

SpecAPI == InitAPI /\ [][NextAPI]_vars

-----------------------------------------------------------------------------
(* SpecJob: one invocation of run_daily_job of scheduler/daily_job.py, which *)
(* runs the pipeline of src/message_database/pipeline/etl.py with no cutoff *)
(* and looks at what it returned.                                           *)
(***************************************************************************)

\* The notifications run_daily_job sends itself: none after True; one after
\* False (the else branch) and one when the pipeline raised (except clause).
job_sends(returned) == IF returned = "True" THEN 0 ELSE 1

\* run_daily_job up to "success = pipeline.extract_transform_load()".
JobCall ==
    /\ job.pc = "idle"
    /\ pc = "idle"
    /\ job' = [job EXCEPT !.pc = "called"]
    /\ pc' = "start"
    /\ UNCHANGED <<runConst, gen, cur, msgq, processed_count, error_count, result,
                   notifications, disconnects, storeOps, gateway, connectRet, insertCalls,
                   log, authFailed>>
    /\ UNCHANGED <<storeVars, pageVars, reqVars, tokVars, trVars, cliVars, apiVars, runsVars>>

\* run_daily_job from the return of the pipeline to its own end: the except
\* clause catches what the pipeline raised, the finally clause only logs.
JobReturn ==
    /\ job.pc = "called"
    /\ pc = "done"
    /\ job' = [pc |-> "done", sent |-> job_sends(result), raised |-> FALSE]
    /\ UNCHANGED <<storeVars, etlVars, pageVars, reqVars, tokVars, trVars, cliVars, apiVars,
                   runsVars>>

InitJob ==
    /\ NoGateway
    /\ InitAdapters
    /\ store \in EarlierStores
    /\ variant = "pkg"
    /\ config \in [required_vars -> BOOLEAN]
    /\ since = "None"
    /\ cutoffs = <<>>
    /\ upstream \in Upstreams
    /\ pc = "idle"
    /\ gen = [offset |-> 0, buf |-> <<>>, more |-> TRUE]
    /\ cur = 0
    /\ msgq = <<>>
    /\ processed_count = 0
    /\ error_count = 0
    /\ result = "none"
    /\ notifications = 0
    /\ disconnects = 0
    /\ storeOps = 0
    /\ gateway = {}
    /\ connectRet = "none"
    /\ insertCalls = 0
    /\ log = <<>>
    /\ authFailed = FALSE

NextJob ==
    \/ JobCall
    \/ Validate
    \/ EtlConnect
    \/ Cutoff
    \/ Fetch
    \/ Complete
    \/ ProcessPkg
    \/ Finally
    \/ JobReturn

SpecJob == InitJob /\ [][NextJob]_vars

-----------------------------------------------------------------------------
(* SpecRuns: successive runs of extract_transform_load with no explicit     *)
(* cutoff, over an upstream that does not change. A run is one step: it     *)
(* connects, asks the store for its latest timestamp, lists the upstream    *)
(* from that cutoff, upserts the records it processes, and disconnects.     *)
(***************************************************************************)

\* The number of runs followed.
MaxRuns == 3

\* The records of the upstream: distinct ids, in the order they are listed.
Feeds ==
    {f \in UNION {[1..n -> [message_id : MsgIds, timestamp : Stamps]] : n \in 0..2} :
        \A i, j \in 1..Len(f) : f[i].message_id = f[j].message_id => i = j}

\* The adapter of a run after its connect().
Connected == [client |-> TRUE, collection |-> TRUE, connected |-> TRUE]

\* datetime.fromisoformat(since_timestamp).strftime('%Y-%m-%d'): the day of
\* the cutoff, the time of day dropped.
arrivalStartDate(ts) == IF ts = isoformat(1) THEN 1 ELSE 2

\* The positions of the records get_all_messages yields for a cutoff: all
\* of them without a cutoff ("if since_timestamp:") or when the upstream
\* ignores the parameter, else those of the cutoff's day or later.
listed(f, cutoff, srv) ==
    {i \in 1..Len(f) :
        \/ cutoff = "None"
        \/ srv = "ignores"
        \/ f[i].timestamp >= arrivalStartDate(cutoff)}

\* What a run makes of the records listed: processed and upserted, errored
\* (counted in error_count), or not reached because the run aborted.
Outcomes(l) ==
    {o \in [l -> {"ok", "error", "unreached"}] :
        \A i, j \in l : (i < j /\ o[i] = "unreached") => o[j] = "unreached"}

\* The store after the upserts of the records processed, in listing order.
RECURSIVE upserted(_, _, _, _)
upserted(s, f, o, i) ==
    IF i > Len(f) THEN s
    ELSE upserted(IF i \in DOMAIN o /\ o[i] = "ok"
                  THEN UpdateOne(s, [message_id |-> f[i].message_id, content |-> "a",
                                     timestamp |-> f[i].timestamp])
                  ELSE s,
                  f, o, i + 1)

\* extract_transform_load() with no since_timestamp; aborted is an exception
\* caught by "except Exception" (a page request that failed, for instance).
Run ==
    /\ reruns.n < MaxRuns
    /\ \E err \in BOOLEAN :
         LET cutoff == effective_cutoff("None", latest_message_timestamp(Connected, store, err))
             l == listed(feed, cutoff, server)
         IN  \E o \in Outcomes(l), failed \in BOOLEAN :
                /\ (\E i \in l : o[i] = "unreached") => failed
                /\ store' = upserted(store, feed, o, 1)
                /\ reruns' = [n |-> reruns.n + 1,
                              cutoff |-> cutoff,
                              fetched |-> {feed[i].message_id : i \in l},
                              errors |-> Cardinality({i \in l : o[i] = "error"}),
                              aborted |-> failed]
    /\ UNCHANGED <<dryRun, uniqueIndex, db, pend, last, twice, server, feed>>
    /\ UNCHANGED <<etlVars, pageVars, reqVars, tokVars, trVars, cliVars, apiVars, jobVars>>

InitRuns ==
    /\ InitStore
    /\ ~dryRun
    /\ NoRun
    /\ NoRequest
    /\ NoPages
    /\ NoTokens
    /\ NoRecord
    /\ NoCommand
    /\ NoRequests
    /\ NoJob
    /\ server \in {"filters", "ignores"}
    /\ feed \in Feeds
    /\ reruns = NoRuns

NextRuns == Run

SpecRuns == InitRuns /\ [][NextRuns]_vars

-----------------------------------------------------------------------------
(* Claims on the store adapter *)

LastWrote ==
    /\ last.op = "insert_message"
    /\ last.ret = "True"
    /\ last.touched

StoredDoc(id) == store[FirstMatch(store, id)]

\* C1: when insert_message(m) is called twice in a row and both calls write,
\* the second call leaves the store as the first one left it, exactly one
\* document with message_id = m.message_id exists, it carries the field
\* values of m, and it equals m when m is a canonical message.
C1_UpsertIdempotent ==
    twice =>
        /\ ~last.changed
        /\ CountOf(store, last.arg.message_id) = 1
        /\ \A f \in DOMAIN last.arg :
              StoredDoc(last.arg.message_id)[f] = last.arg[f]
        /\ last.arg \in Canonical => StoredDoc(last.arg.message_id) = last.arg

C1_Witness ==
    /\ twice
    /\ last.arg \in Canonical
    /\ Len(store) = 2

\* C2: whatever the interleaving of the insert_message calls of the runs,
\* the store holds at most one document per message_id, and after a write
\* the document of its message_id carries the values of that write.
C2_OnePerKeyLastWins ==
    /\ \A id \in MsgIds : CountOf(store, id) <= 1
    /\ LastWrote =>
          /\ CountOf(store, last.arg.message_id) >= 1
          /\ StoredDoc(last.arg.message_id) = last.arg

\* C3 as stated: after a successful insert_message(m) for a message_id that
\* was in the store, the stored document equals m.
C3_FullReplace ==
    (LastWrote /\ last.matched) => StoredDoc(last.arg.message_id) = last.arg

\* C3, amended: a successful insert_message(m) for a message_id that is in
\* the store changes that one document only; afterwards the document has
\* the fields of m with the values of m, and every field of the previous
\* document that m does not carry with the value it had.
C3_SetMerge ==
    [][(LastWrote' /\ last'.matched) =>
        LET m == last'.arg
            i == FirstMatch(store, m.message_id)
        IN  /\ Len(store') = Len(store)
            /\ \A j \in 1..Len(store) : j # i => store'[j] = store[j]
            /\ DOMAIN store'[i] = (DOMAIN store[i]) \cup (DOMAIN m)
            /\ \A f \in DOMAIN m : store'[i][f] = m[f]
            /\ \A f \in (DOMAIN store[i]) \ (DOMAIN m) : store'[i][f] = store[i][f]
      ]_vars

C3_Witness ==
    /\ LastWrote
    /\ last.matched
    /\ last.changed
    /\ "timestamp" \in DOMAIN StoredDoc(last.arg.message_id)
    /\ "timestamp" \notin DOMAIN last.arg

\* C4: insert_message never raises; it returns False without reaching the
\* collection and without changing the store when the adapter is not
\* connected, and returns False with the store unchanged when the collection
\* operation raises PyMongoError.
C4_InsertNeverRaises ==
    last.op = "insert_message" =>
        /\ last.ret \in {"True", "False"}
        /\ ~last.conn => (last.ret = "False" /\ ~last.touched /\ ~last.changed)
        /\ last.err => (last.ret = "False" /\ ~last.changed)

C4_Witness ==
    /\ last.op = "insert_message"
    /\ ~last.conn
    /\ ~dryRun
    /\ store # <<>>

-----------------------------------------------------------------------------
(* Claims on the pipeline *)

\* The run has returned (the finally clause is running or has run).
Ended == pc \in {"finally", "done"}

\* The run went through the whole sequence and returned from the try block.
Completed == Ended /\ notifications = 0

\* The records get_all_messages yields to a run that consumes it all.
Yielded == IF dryRun THEN <<>> ELSE upstream

Entries(S) == {i \in 1..Len(log) : log[i].outcome \in S}

Failed == {"transform_error", "lookup_error", "insert_false"}

\* The log entries made for record ci of the sequence.
EntriesOf(ci) == {i \in 1..Len(log) : log[i].conv = ci}

\* The transformer raised on record ci.
RaisedOn(ci) == \E i \in EntriesOf(ci) : log[i].outcome = "transform_error"

\* Record ci was processed and nothing of it failed.
PersistedAll(ci) ==
    /\ EntriesOf(ci) # {}
    /\ \A i \in EntriesOf(ci) : log[i].outcome = "persisted"

\* C5: in both pipeline modules, a record whose insert_message call returned
\* False is counted in error_count and not in processed_count (the counters
\* are the numbers of failed and of persisted records), and the run that
\* saw one returns False.
C5_InsertFalseCounted ==
    /\ processed_count = Cardinality(Entries({"persisted"}))
    /\ error_count = Cardinality(Entries(Failed))
    /\ (Ended /\ Entries({"insert_false"}) # {}) => result = "False"

\* C6: an error on one record does not end the run: a completed run has
\* processed every record of the sequence; a record whose transformer raised
\* is not handed to insert_message; and a run over 3 records whose 2nd made
\* the transformer raise, the other two being persisted, ends with
\* processed_count = 2, error_count = 1, False and two insert_message calls.
C6_RecordErrorDoesNotAbort ==
    /\ Completed => \A ci \in 1..Len(Yielded) : EntriesOf(ci) # {}
    /\ \A ci \in 1..Len(upstream) :
          RaisedOn(ci) =>
              ~\E i \in EntriesOf(ci) : log[i].outcome \in {"persisted", "insert_false"}
    /\ (/\ Completed
        /\ Len(Yielded) = 3
        /\ PersistedAll(1)
        /\ RaisedOn(2)
        /\ PersistedAll(3))
       => (/\ processed_count = 2
           /\ error_count = 1
           /\ result = "False"
           /\ insertCalls = 2)

\* C7: at the end of a completed run processed_count + error_count is the
\* number of records get_all_messages yielded, and when no transform and no
\* upsert failed processed_count and the number of insert_message calls are
\* that number.
C7_CountersCoverYielded ==
    Completed =>
        /\ processed_count + error_count = Len(Yielded)
        /\ Entries(Failed) = {} =>
              (processed_count = Len(Yielded) /\ insertCalls = Len(Yielded))

\* C8: extract_transform_load returns True only if the run completed and no
\* record was dropped because of an error of the transformer, of the store or
\* of a gateway call made for it.
C8_TrueOnlyIfNothingDropped ==
    result = "True" =>
        /\ Completed
        /\ Entries(Failed \cup {"fetch_error"}) = {}

\* C9: db.disconnect() is called exactly once on every path out of
\* extract_transform_load, as the last thing the run does: no store operation
\* follows it.
C9_DisconnectOnceAndLast ==
    /\ [](/\ disconnects <= 1
          /\ pc = "done" <=> disconnects = 1)
    /\ [][disconnects >= 1 => (storeOps' = storeOps /\ store' = store)]_vars

C9_Witness ==
    /\ pc = "done"
    /\ disconnects = 1
    /\ notifications = 1
    /\ "get_messages" \in gateway
    /\ Len(log) >= 2
    /\ store # <<>>

\* C10: when db.connect() returns False the run returns False, sends exactly
\* one notification, calls db.disconnect(), and calls no gateway method
\* (get_all_messages included) and no insert_message.
C10_ConnectFalse ==
    connectRet = "False" =>
        /\ Ended
        /\ result = "False"
        /\ notifications = 1
        /\ gateway = {}
        /\ insertCalls = 0
        /\ pc = "done" => disconnects = 1

C10_Witness ==
    /\ connectRet = "False"
    /\ pc = "done"
    /\ disconnects = 1
    /\ upstream # <<>>

\* C11: with a required configuration value missing the run makes no call of
\* db.connect, of a gateway method or of another store operation, and once
\* validate_config has run it has returned False.
C11_MissingConfigAborts ==
    (\E v \in required_vars : ~config[v]) =>
        /\ connectRet = "none"
        /\ storeOps = 0
        /\ insertCalls = 0
        /\ gateway = {}
        /\ last = NoCall \/ last.op = "disconnect"
        /\ store \in EarlierStores
        /\ pc # "start" => (Ended /\ result = "False")

C11_Witness ==
    /\ ~config["MONGODB_URI"]
    /\ config["HOSTAWAY_CLIENT_ID"]
    /\ config["HOSTAWAY_CLIENT_SECRET"]
    /\ pc = "done"
    /\ result = "False"

\* The timestamps of the stored documents.
StoredStamps == {store[i].timestamp : i \in {j \in 1..Len(store) : "timestamp" \in DOMAIN store[j]}}

MaxStamp == CHOOSE t \in StoredStamps : \A u \in StoredStamps : u <= t

\* C13: get_latest_message_timestamp returns the greatest timestamp of the
\* stored documents whenever the store holds a document, and none when the
\* store is empty.
C13_LatestIsMax ==
    last.op = "get_latest_message_timestamp" =>
        /\ store = <<>> => last.ret = "None"
        /\ store # <<>> => (StoredStamps # {} /\ last.ret = isoformat(MaxStamp))

\* C13, as the code has it: the greatest stored timestamp, in ISO format,
\* when the adapter is connected, not in dry-run mode, the query raises no
\* PyMongoError and some stored document has a timestamp; none in every other
\* case, the empty store included.  The call never raises and never writes.
C13_LatestWhenAnswered ==
    [][last'.op = "get_latest_message_timestamp" =>
         /\ store' = store
         /\ last'.ret =
              IF last'.conn /\ ~dryRun /\ ~last'.err /\ StoredStamps # {}
              THEN isoformat(MaxStamp)
              ELSE "None"]_vars

C13_Witness ==
    /\ last.op = "get_latest_message_timestamp"
    /\ last.ret = isoformat(2)
    /\ Len(store) = 2
    /\ StoredStamps = {1, 2}
    /\ store[1].timestamp = 2

\* C12: a run calls get_all_messages at most once, and once when it reaches
\* the iteration; the argument is since_timestamp when one is given, the
\* store then not being asked, and otherwise what
\* get_latest_message_timestamp() returned: the store's latest timestamp, or
\* none.
C12_EffectiveCutoff ==
    /\ [](/\ Len(cutoffs) <= 1
          /\ (pc \in {"iterate", "messages"} \/ Completed) => Len(cutoffs) = 1
          /\ ("get_all_messages" \in gateway) <=> (Len(cutoffs) = 1))
    /\ [][Len(cutoffs') > Len(cutoffs) =>
            IF since # "None"
            THEN /\ cutoffs' = <<since>>
                 /\ storeOps' = storeOps
                 /\ last' = last
            ELSE /\ last'.op = "get_latest_message_timestamp"
                 /\ storeOps' = storeOps + 1
                 /\ cutoffs' = <<last'.ret>>
                 /\ last'.ret \in {"None", isoformat(1), isoformat(2)}
                 /\ (~dryRun /\ ~last'.err /\ store # <<>>) => last'.ret = isoformat(MaxStamp)]_vars

C12_Witness ==
    /\ since = "None"
    /\ cutoffs = <<isoformat(2)>>
    /\ pc = "done"
    /\ Completed
    /\ Len(store) > 1

\* C12, a second case: an explicit cutoff given with a store that has a
\* latest timestamp of its own.
C12_WitnessGiven ==
    /\ since # "None"
    /\ cutoffs = <<since>>
    /\ store # <<>>
    /\ pc = "done"

\* The generator is about to ask for a page.
AtPageRequest == pc = "iterate" /\ gen.buf = <<>> /\ gen.more

\* C17: a page request that raises HostawayAPIError (the generator does not
\* advance) ends the run at once with False and one notification, the counts,
\* the record log and the stored documents being left as they were; nothing
\* changes them afterwards, and the run disconnects.
C17_PageErrorSurfaces ==
    /\ [][(AtPageRequest /\ gen' = gen) =>
            /\ pc' = "finally"
            /\ result' = "False"
            /\ notifications' = notifications + 1
            /\ notifications' = 1
            /\ processed_count' = processed_count
            /\ error_count' = error_count
            /\ log' = log
            /\ store' = store]_vars
    /\ [][Ended =>
            /\ pc' = "done"
            /\ disconnects' = 1
            /\ result' = result
            /\ notifications' = notifications
            /\ processed_count' = processed_count
            /\ error_count' = error_count
            /\ store' = store]_vars

C17_Witness ==
    /\ pc = "done"
    /\ gen.buf = <<>>
    /\ gen.more
    /\ gen.offset = PageLimit
    /\ Len(log) >= PageLimit
    /\ result = "False"
    /\ notifications = 1
    /\ disconnects = 1
    /\ processed_count >= 1
    /\ \E i \in 1..Len(store) : store[i] = MessageDoc(1, IF variant = "src" THEN 1 ELSE 0)

-----------------------------------------------------------------------------
(* Claims on the gateway *)

\* The page the k-th get_messages call of the consumption returned.
Received(k) ==
    IF dryRun /\ responder.kind = "server"
    THEN <<>>
    ELSE get_messages_result(responder, k, limit, calls[k])

\* The get_messages calls that returned a page.
Answered == IF gpc = "raised" THEN Len(calls) - 1 ELSE Len(calls)

GeneratorOver == gpc \in {"ended", "raised"}

C15_StubbedPages ==
    /\ (/\ gpc = "ended"
        /\ responder = [kind |-> "stub", sizes |-> <<2, 2, 1>>])
       => Len(yielded) = 5
    /\ (/\ gpc = "ended"
        /\ responder = [kind |-> "stub", sizes |-> <<2, 1>>])
       => (/\ yielded = << <<1, 1>>, <<1, 2>>, <<2, 1>> >>
           /\ Len(calls) = 3)

\* C16: the consumption of get_all_messages comes to an end, whatever the
\* number of records, and within MaxRequests page requests.
C16_Terminates ==
    /\ <>GeneratorOver
    /\ [](Len(calls) < MaxRequests)

C16_Witness ==
    /\ gpc = "ended"
    /\ responder = [kind |-> "server", n |-> 2 * limit]
    /\ ~dryRun
    /\ Len(calls) = 3
    /\ Len(yielded) = 2 * limit

AuthAnswers == {"401", "403"}

\* C18: a 401 or 403 makes one token refresh and one retry; when the retried
\* call gets a 401 or 403 again _make_request raises with no further refresh
\* and no further HTTP call (with a 401 on the first call: two HTTP calls and
\* one refresh in all).
C18_OneRefreshOneRetry ==
    /\ refreshes <= 1
    /\ \A k \in 1..(Len(responses) - 1) :
          (responses[k] \in AuthAnswers /\ responses[k + 1] \in AuthAnswers) =>
              (/\ rpc = "raised"
               /\ http_calls = k + 1)

\* C19: _make_request makes at most 3 HTTP calls; it sleeps the request
\* delay before the first and 2 s times the attempt number before each
\* retry; while every call fails at transport level it goes on until the
\* 3rd, after which it raises HostawayAPIError; it returns the first
\* successful response and makes no call after it.
C19_RetriesWithBackoff ==
    /\ http_calls <= 3
    /\ http_calls = Len(responses)
    /\ Len(sleeps) = http_calls
    /\ \A k \in 1..Len(sleeps) :
          sleeps[k] = IF k = 1 THEN API_REQUEST_DELAY ELSE 2 * (k - 1)
    /\ (/\ responses # <<>>
        /\ \A k \in 1..Len(responses) : responses[k] \in {"transport", "http_error"})
       => IF Len(responses) = 3
          THEN rpc = "raised" /\ req_result = "Failed after 3 attempts"
          ELSE rpc = "attempt" /\ attempt = Len(responses)
    /\ \A k \in 1..Len(responses) :
          responses[k] = "ok" =>
              (/\ k = Len(responses)
               /\ rpc = "returned"
               /\ req_result = "response")

C19_Witness ==
    /\ responses = <<"transport", "http_error", "ok">>
    /\ sleeps = <<API_REQUEST_DELAY, 2, 4>>
    /\ rpc = "returned"

\* C19, a second case: three failures in a row.
C19_WitnessRaised ==
    /\ responses = <<"transport", "transport", "transport">>
    /\ rpc = "raised"
    /\ req_result = "Failed after 3 attempts"

\* C20: a 200 whose body has a status other than "success" makes
\* _make_request raise HostawayAPIError with the body's message (a default
\* text when the body has none), the call that got it being the last.
C20_ApiErrorRaisedAtOnce ==
    \A k \in 1..Len(responses) :
        responses[k] \in {"api_error", "api_error_nomsg"} =>
            /\ k = Len(responses)
            /\ http_calls = k
            /\ rpc = "raised"
            /\ req_result = IF responses[k] = "api_error" THEN "API Error"
                            ELSE "Unknown API error"

C20_Witness ==
    /\ responses = <<"transport", "api_error">>
    /\ rpc = "raised"
    /\ req_result = "API Error"
    /\ http_calls = 2
    /\ script[3] = "ok"

\* C21: over requests that get no 401 or 403, the credentials grant is called
\* only when no token is cached or the clock has reached the time of issue
\* plus 90% of the token's expires_in; while the cached token is valid, no
\* grant is called and the request carries the cached token.
C21_TokenCached ==
    [][/\ token_grants' # token_grants =>
             \/ token = NoToken
             \/ now >= issued.at + (issued.expires_in * 9) \div 10
       /\ (/\ sent' # sent
           /\ sent'.call = "_make_request"
           /\ ~dryRun
           /\ token # NoToken
           /\ now < issued.at + (issued.expires_in * 9) \div 10) =>
             /\ token_grants' = token_grants
             /\ sent'.attached = token
             /\ token' = token]_vars

\* A request that found the token granted earlier still valid, and one that
\* found it at 90% of its lifetime and asked for another.
C21_Witness ==
    /\ sent.call = "_make_request"
    /\ token_grants = 1
    /\ ~sent.granted
    /\ sent.attached = 1
    /\ now > issued.at

C21_WitnessRefreshed ==
    /\ sent.call = "_make_request"
    /\ sent.granted
    /\ sent.cached = 1
    /\ issued.at = 9
    /\ token = 2

\* What a dry run leaves alone: no document written, no index built, no
\* client or collection handle opened, no collection method reached, no HTTP
\* call and no credentials grant made.
NothingTouched ==
    /\ store = <<>>
    /\ ~uniqueIndex
    /\ \A a \in Adapters : ~db[a].client /\ ~db[a].collection
    /\ ~last.touched
    /\ http_calls = 0 /\ grants = 0 /\ refreshes = 0 /\ responses = <<>>
    /\ token_grants = 0 /\ ~sent.granted

\* The stand-ins every method but insert_message returns in a dry run.
StandIns ==
    /\ last.op = "connect" => last.ret = "True"
    /\ last.op = "disconnect" => last.ret = "None"
    /\ last.op = "get_latest_message_timestamp" => last.ret = "None"
    /\ last.op = "count_messages" => last.ret = "0"
    /\ rpc \in {"idle", "start", "returned"}
    /\ rpc = "returned" => req_result = "dry_run"
    /\ sent.call = "_get_access_token" => sent.attached = DryRunToken /\ ~sent.raised

\* C22 (as claimed): in a dry run no method of the gateway or of the store
\* adapter makes an HTTP call or a storage operation, in any order of calls,
\* and each returns its stand-in: an empty result, True, None, 0.
C22_DryRunStandIns ==
    dryRun =>
        /\ NothingTouched
        /\ StandIns
        /\ last.op = "insert_message" => last.ret = "True"

\* C22 (amended): the same, but insert_message returns True only on an
\* adapter that connect() marked connected; before connect() and after
\* disconnect() it returns False, as it does outside a dry run.
C22_DryRunConnectedInsert ==
    dryRun =>
        /\ NothingTouched
        /\ StandIns
        /\ last.op = "insert_message" => last.ret = (IF last.conn THEN "True" ELSE "False")

\* A dry run in which insert_message was called before connect(), and one in
\* which it was called on the connected adapter after a gateway call.
C22_Witness ==
    /\ dryRun
    /\ last.op = "insert_message"
    /\ ~last.conn
    /\ last.ret = "False"

C22_WitnessConnected ==
    /\ dryRun
    /\ last.op = "insert_message"
    /\ last.conn
    /\ last.ret = "True"
    /\ rpc = "returned"
    /\ token = DryRunToken

\* C23: connect() makes at most max_retries attempts, returns True on the
\* first probe that answers and False, with connected = False, after
\* max_retries failed attempts; it never raises, whatever the constructor of
\* the client or the probe fails with.
C23_ConnectNeverRaises ==
    last.op = "connect" =>
        /\ last.ret \in {"True", "False"}
        /\ last.ret = "True" => db["run1"].connected
        /\ last.ret = "False" => ~db["run1"].connected

\* C24: disconnect() never raises, in whatever state it is called; when it
\* returns, connected is False and no client or collection handle is held,
\* and an insert_message that follows returns False without reaching the
\* store.
C24_DisconnectSafe ==
    /\ [](last.op = "disconnect" =>
            /\ last.ret = "None"
            /\ ~db["run1"].connected
            /\ ~db["run1"].client
            /\ ~db["run1"].collection)
    /\ [][(last.op = "disconnect" /\ last'.op = "insert_message") =>
            /\ last'.ret = "False"
            /\ ~last'.touched
            /\ store' = store]_vars

\* disconnect() called on a connected adapter that has written a document,
\* and called again on the adapter it had disconnected.
C24_Witness ==
    /\ last.op = "disconnect"
    /\ last.conn
    /\ ~dryRun
    /\ store # <<>>

C24_WitnessNotConnected ==
    /\ last.op = "disconnect"
    /\ ~last.conn
    /\ store # <<>>

\* Record ci was dealt with: every message of it was upserted or failed.
Settled(ci) ==
    /\ EntriesOf(ci) # {}
    /\ \A i \in EntriesOf(ci) : log[i].outcome \in {"persisted"} \cup Failed

\* C25: processing is strictly sequential: the records are finished in the
\* order of the sequence, one before the next is begun, and the request for
\* the next page is made only when every record of the pages before it was
\* upserted or counted as an error.
C25_StrictlySequential ==
    /\ [](\A i, j \in 1..Len(log) : i < j => log[i].conv <= log[j].conv)
    /\ [][(/\ pc = "iterate"
           /\ gen.buf = <<>>
           /\ gen.more
           /\ (gen' # gen \/ pc' # pc)) =>
             /\ msgq = <<>>
             /\ \A ci \in 1..Len(upstream) : ci <= gen.offset => Settled(ci)
             /\ error_count = Cardinality(Entries(Failed))]_vars

\* C26: a failure of the credentials grant at any point of a run (during
\* the listing, the fetch of a conversation's messages or an enrichment
\* lookup) aborts the run: extract_transform_load returns False and one
\* notification is sent.
C26_AuthFailureAborts ==
    (Ended /\ authFailed) => (result = "False" /\ notifications = 1)

-----------------------------------------------------------------------------
(* Claims on the transformer *)

Processed == out.status = "processed"

\* C27: the direction of the canonical message is incoming when isIncoming
\* is present and true, outgoing when it is present and false whatever the
\* type tag, incoming when it is absent and the type tag is
\* "guest-host-email", outgoing otherwise; it is one of the two enum values.
C27_Direction ==
    Processed =>
        /\ out.message.direction \in {"incoming", "outgoing"}
        /\ out.message.direction = "incoming" <=>
              \/ rec.isIncoming = "true"
              \/ rec.isIncoming = "absent" /\ rec.type = <<"guest", "host", "email">>

\* C28: the message_type of the canonical message is automated when the type
\* tag of the record starts with "automated", manual otherwise.
C28_MessageType ==
    Processed =>
        out.message.message_type =
            (IF rec.type # <<>> /\ rec.type[1] = "automated" THEN "automated" ELSE "manual")

\* C29: the content is the inline body of the record when it has one, else
\* the body of the first message of the conversation, else the empty string;
\* a record with no body from either source is processed, not failed.
C29_ContentPriority ==
    /\ Processed =>
          out.message.content =
              (IF rec.body \notin {"absent", ""} THEN rec.body
               ELSE IF thread = "first" THEN "first" ELSE "")
    /\ (/\ out # NoOutcome
        /\ rec.body \in {"absent", ""}
        /\ thread \in {"none", "nobody"}
        /\ \A c \in out.called : lookups[c] = "ok")
       => (Processed /\ out.message.content = "")

\* C30: a failed property lookup or reservation lookup never makes the record
\* fail: it is processed, with the property name "" after a failed property
\* lookup and with a reservation that has the id and no price after a failed
\* reservation lookup.
C30_LookupFailureDegrades ==
    /\ ("property" \in out.called /\ lookups.property = "error") =>
          (Processed /\ out.message.property_name = "")
    /\ ("reservation" \in out.called /\ lookups.reservation = "error") =>
          (/\ Processed
           /\ out.message.reservation.present
           /\ out.message.reservation.id = rec.reservationId
           /\ out.message.reservation.price = "None")

\* C31: the canonical message has a reservation exactly when the record
\* carries a reservation id: with reservationId missing or null the
\* reservation is None and no reservation lookup is made; with a reservation
\* id the reservation has exactly that id.
C31_ReservationIffId ==
    Processed =>
        IF rec.reservationId \in {"absent", "null"}
        THEN ~out.message.reservation.present /\ "reservation" \notin out.called
        ELSE out.message.reservation.present /\ out.message.reservation.id = rec.reservationId

\* C32: with a reservation id on the record, the guest fields come only from
\* the reservation lookup (name "" and the rest None when it fails), never
\* from the record; without one they are the record's inline guest fields.
C32_GuestSource ==
    Processed =>
        out.message.guest =
            (IF rec.reservationId \notin {"absent", "null"}
             THEN IF lookups.reservation = "ok"
                  THEN [name |-> "Looked up", email |-> "Looked up"]
                  ELSE [name |-> "", email |-> "None"]
             ELSE IF rec.guest = "absent"
                  THEN [name |-> "", email |-> "None"]
                  ELSE [name |-> rec.guest, email |-> rec.guest])

\* C33: every document the pipeline writes has direction in {incoming,
\* outgoing} and message_type in {automated, manual}; a message built with
\* another value is refused, not coerced: the record is counted as an error
\* and nothing is upserted for it.
C33_EnumsValidated ==
    /\ [](\A i \in 1..Len(store) :
            /\ store[i].direction \in {"incoming", "outgoing"}
            /\ store[i].message_type \in {"automated", "manual"})
    /\ [][(/\ processed_count' + error_count' # processed_count + error_count
           /\ \/ out'.message.direction \notin {"incoming", "outgoing"}
              \/ out'.message.message_type \notin {"automated", "manual"}) =>
             /\ store' = store
             /\ insertCalls' = insertCalls
             /\ error_count' = error_count + 1
             /\ processed_count' = processed_count]_vars

\* A message with direction "Incoming" was refused after another was stored.
C33_Witness ==
    /\ store # <<>>
    /\ out.status = "error"
    /\ out.message.direction = "Incoming"
    /\ error_count = 1
    /\ processed_count = 1

-----------------------------------------------------------------------------
(* Claims on the command line *)

\* C34: an explicit --since is passed unchanged; otherwise, for every day
\* count N >= 0 given, extract_transform_load is called with the time N days
\* before now, so that the cutoff is not the store's latest timestamp; the
\* exit status is non-zero exactly when the run returned False.
C34_CutoffFromArguments ==
    exit_code # NotExited =>
        /\ args.since_timestamp # "None" => invoked = args.since_timestamp
        /\ (args.since_timestamp = "None" /\ args.days_given) =>
              /\ invoked = ToString(today - args.days_ago)
              /\ (IF invoked # "None" THEN invoked ELSE "latest") # "latest"
        /\ exit_code # 0 <=> run_returned = "False"

-----------------------------------------------------------------------------
(* Claims on the read API *)

C35_WitnessNotFound ==
    /\ store # <<>>
    /\ response.op = "get_message"
    /\ response.conn
    /\ response.touched
    /\ ~response.found
    /\ response.status = 404

-----------------------------------------------------------------------------
(* Claims on the gateway's calls *)

\* C36: every outbound HTTP call of the gateway (each attempt of a request,
\* retries included, and each credentials-grant call) is preceded by a sleep
\* of the configured request delay: there is one such sleep per call.
C36_DelayBeforeEveryCall ==
    /\ Len(sleeps) = http_calls + grants
    /\ \A k \in 1..Len(sleeps) : sleeps[k] = API_REQUEST_DELAY

\* C37: whatever the answers, a call of _make_request makes at most 3 HTTP
\* requests and at most 2 token refreshes, and it ends: by returning a body
\* whose status is "success" or by raising HostawayAPIError, never by leaving
\* the retry loop with no value.
C37_BoundedAndDecided ==
    /\ [](http_calls <= 3 /\ refreshes <= 2)
    /\ [](rpc = "returned" => req_result \in {"response", "dry_run"})
    /\ [](rpc = "raised" =>
            req_result \in {"Authentication failed", "Failed after 3 attempts",
                            "API Error", "Unknown API error"})
    /\ <>(rpc \in {"returned", "raised"})

\* Two 401/403 answers, each followed by a refresh, then a third: 3 HTTP
\* requests, 2 refreshes, HostawayAPIError.
C37_Witness ==
    /\ http_calls = 3
    /\ refreshes = 2
    /\ \A k \in 1..3 : responses[k] \in {"401", "403"}
    /\ rpc = "raised"
    /\ req_result = "Failed after 3 attempts"

\* C37, a second case: an HTTP error, a transport failure, then a success.
C37_WitnessReturned ==
    /\ responses = <<"http_error", "transport", "ok">>
    /\ rpc = "returned"
    /\ req_result = "response"

-----------------------------------------------------------------------------
(* Claims on the daily job *)

\* C39: one invocation of run_daily_job never raises; it sends no
\* notification when the run succeeds and exactly one, the pipeline's and
\* its own counted together, when the run fails, whatever the cause.
C39_OneNotificationPerFailure ==
    job.pc = "done" =>
        /\ ~job.raised
        /\ notifications + job.sent = (IF result = "True" THEN 0 ELSE 1)

-----------------------------------------------------------------------------
(* Claims on successive runs *)

\* The ids of the documents of the store.
Stored == {store[i].message_id : i \in 1..Len(store)}

\* C38: with an unchanging upstream, a record that is not in the store while
\* a record with a later timestamp is, is fetched again by the next run made
\* without explicit cutoff; and once a run has completed with zero errors,
\* every upstream record is in the store.
C38_UnpersistedFetchedAgain ==
    /\ [][reruns'.n # reruns.n =>
            \A i, j \in 1..Len(feed) :
                (/\ feed[i].message_id \notin Stored
                 /\ feed[j].message_id \in Stored
                 /\ feed[j].timestamp > feed[i].timestamp)
                => feed[i].message_id \in reruns'.fetched]_vars
    /\ []((reruns.n > 0 /\ reruns.errors = 0 /\ ~reruns.aborted) =>
            \A i \in 1..Len(feed) : feed[i].message_id \in Stored)

=============================================================================
